---- MODULE Spec2Model ----
(***************************************************************************)
(* The CMCD log decoder of src/lambda_function.py: lambda_handler and the  *)
(* functions it calls (parse_cloudfront_log, extract_cmcd_headers,         *)
(* parse_cmcd_value, create_timestream_records).                           *)
(*                                                                         *)
(* Text is modelled at the character level: a Python str is a sequence of  *)
(* one-character strings, and the str methods the code calls (split,       *)
(* strip, replace, lower, isdigit, in) are operators on such sequences.    *)
(* A dict is the sequence of its <<key, value>> items in insertion order.  *)
(***************************************************************************)
EXTENDS Integers, Sequences, FiniteSets, TLC

(***************************************************************************)
(* Characters.                                                             *)
(***************************************************************************)
TAB == "\t"
LF == "\n"
\* U+00B2 SUPERSCRIPT TWO: str.isdigit() is True for it, int() rejects it.
SUP2 == "sup2"
\* U+0663 ARABIC-INDIC DIGIT THREE: a decimal digit, int() reads it as 3.
ARABIC3 == "arabic3"

\* The characters str.strip() removes (the ASCII whitespace).
Whitespace == {" ", TAB, LF, "\r", "\f"}

AsciiDigits == {"0", "1", "2", "3", "4", "5", "6", "7", "8", "9"}

\* Characters c with c.isdecimal(): the digits int() accepts.
DecimalChars == AsciiDigits \cup {ARABIC3}

\* Characters c with c.isdigit(): the decimal digits and the other digits.
DigitChars == DecimalChars \cup {SUP2}

DigitValue(c) ==
    CASE c = "0" -> 0 [] c = "1" -> 1 [] c = "2" -> 2 [] c = "3" -> 3
      [] c = "4" -> 4 [] c = "5" -> 5 [] c = "6" -> 6 [] c = "7" -> 7
      [] c = "8" -> 8 [] c = "9" -> 9 [] c = ARABIC3 -> 3

DigitChar(n) ==
    CASE n = 0 -> "0" [] n = 1 -> "1" [] n = 2 -> "2" [] n = 3 -> "3"
      [] n = 4 -> "4" [] n = 5 -> "5" [] n = 6 -> "6" [] n = 7 -> "7"
      [] n = 8 -> "8" [] n = 9 -> "9"

(***************************************************************************)
(* str methods.                                                            *)
(***************************************************************************)
\* s[a:b] with 1-based inclusive bounds; empty when a > b.
Slice(s, a, b) == SubSeq(s, a, b)

\* s.startswith(sub, i): sub occurs in s at position i.
OccursAt(s, sub, i) ==
    /\ i + Len(sub) - 1 <= Len(s)
    /\ \A k \in 1..Len(sub) : s[i + k - 1] = sub[k]

\* s.find(sub): the first position of sub in s, 0 when there is none.
Find(s, sub) ==
    LET hits == {i \in 1..Len(s) : OccursAt(s, sub, i)}
    IN  IF hits = {} THEN 0 ELSE CHOOSE i \in hits : \A j \in hits : i <= j

\* sub in s
Contains(s, sub) == Find(s, sub) # 0

RECURSIVE split(_, _)
\* s.split(sep) for a non-empty separator: always at least one part.
split(s, sep) ==
    LET p == Find(s, sep)
    IN  IF p = 0 THEN <<s>>
        ELSE <<Slice(s, 1, p - 1)>> \o split(Slice(s, p + Len(sep), Len(s)), sep)

\* s.split(sep, 1): split at the first occurrence of sep only.
split1(s, sep) ==
    LET p == Find(s, sep)
    IN  IF p = 0 THEN <<s>>
        ELSE <<Slice(s, 1, p - 1), Slice(s, p + Len(sep), Len(s))>>

\* s.strip(chars): drop every leading and trailing character that is in chars.
stripChars(s, chars) ==
    LET keep == {i \in 1..Len(s) : s[i] \notin chars}
    IN  IF keep = {} THEN <<>>
        ELSE LET lo == CHOOSE i \in keep : \A j \in keep : i <= j
                 hi == CHOOSE i \in keep : \A j \in keep : i >= j
             IN  Slice(s, lo, hi)

\* s.strip()
strip(s) == stripChars(s, Whitespace)

RECURSIVE replace(_, _, _)
\* s.replace(old, new): every non-overlapping occurrence, left to right.
replace(s, old, new) ==
    LET p == Find(s, old)
    IN  IF p = 0 THEN s
        ELSE Slice(s, 1, p - 1) \o new
               \o replace(Slice(s, p + Len(old), Len(s)), old, new)

LowerChar(c) ==
    CASE c = "A" -> "a" [] c = "B" -> "b" [] c = "C" -> "c" [] c = "D" -> "d"
      [] c = "E" -> "e" [] c = "F" -> "f" [] c = "G" -> "g" [] c = "H" -> "h"
      [] c = "I" -> "i" [] c = "J" -> "j" [] c = "K" -> "k" [] c = "L" -> "l"
      [] c = "M" -> "m" [] c = "N" -> "n" [] c = "O" -> "o" [] c = "P" -> "p"
      [] c = "Q" -> "q" [] c = "R" -> "r" [] c = "S" -> "s" [] c = "T" -> "t"
      [] c = "U" -> "u" [] c = "V" -> "v" [] c = "W" -> "w" [] c = "X" -> "x"
      [] c = "Y" -> "y" [] c = "Z" -> "z" [] OTHER -> c

\* s.lower()
lower(s) == [k \in 1..Len(s) |-> LowerChar(s[k])]

\* s.isdigit(): non-empty and every character a digit.
isdigit(s) == Len(s) > 0 /\ \A k \in 1..Len(s) : s[k] \in DigitChars

\* Whether int(s) accepts a string for which s.isdigit() holds.
IntAccepts(s) == \A k \in 1..Len(s) : s[k] \in DecimalChars

RECURSIVE IntValue(_)
\* int(s) for a string of decimal digits.
IntValue(s) ==
    IF Len(s) = 0 THEN 0
    ELSE 10 * IntValue(Slice(s, 1, Len(s) - 1)) + DigitValue(s[Len(s)])

RECURSIVE str(_)
\* str(n) for an int n >= 0.
str(n) == IF n < 10 THEN <<DigitChar(n)>> ELSE str(n \div 10) \o <<DigitChar(n % 10)>>

(***************************************************************************)
(* urllib.parse.unquote                                                    *)
(***************************************************************************)
HexChars == AsciiDigits \cup {"A", "B", "C", "D", "E", "F", "a", "b", "c", "d", "e", "f"}

HexValue(c) ==
    IF c \in AsciiDigits THEN DigitValue(c)
    ELSE CASE LowerChar(c) = "a" -> 10 [] LowerChar(c) = "b" -> 11
           [] LowerChar(c) = "c" -> 12 [] LowerChar(c) = "d" -> 13
           [] LowerChar(c) = "e" -> 14 [] LowerChar(c) = "f" -> 15

\* U+0060 GRAVE ACCENT.
GRAVE == "grave"

\* The printable ASCII characters, code 32 (space) to code 126 (~).
Printable ==
    <<" ", "!", "\"", "#", "$", "%", "&", "'", "(", ")", "*", "+", ",", "-", ".", "/",
      "0", "1", "2", "3", "4", "5", "6", "7", "8", "9", ":", ";", "<", "=", ">", "?",
      "@", "A", "B", "C", "D", "E", "F", "G", "H", "I", "J", "K", "L", "M", "N", "O",
      "P", "Q", "R", "S", "T", "U", "V", "W", "X", "Y", "Z", "[", "\\", "]", "^", "_",
      GRAVE, "a", "b", "c", "d", "e", "f", "g", "h", "i", "j", "k", "l", "m", "n", "o",
      "p", "q", "r", "s", "t", "u", "v", "w", "x", "y", "z", "{", "|", "}", "~">>

\* U+FFFD, what a byte that is not valid UTF-8 decodes to (errors='replace').
REPLACEMENT == "ufffd"

\* The character of one percent-decoded byte below 0x80; a control character
\* other than tab, newline, carriage return and form feed is kept as a token.
Chr(n) ==
    IF n >= 32 /\ n <= 126 THEN Printable[n - 31]
    ELSE CASE n = 9 -> TAB [] n = 10 -> LF [] n = 13 -> "\r" [] n = 12 -> "\f"
           [] n >= 128 -> REPLACEMENT [] OTHER -> "ctl"

\* Whether s holds a percent escape %XX at position i.
EscapeAt(s, i) ==
    /\ i + 2 <= Len(s)
    /\ s[i] = "%"
    /\ s[i + 1] \in HexChars
    /\ s[i + 2] \in HexChars

ByteAt(s, i) == 16 * HexValue(s[i + 1]) + HexValue(s[i + 2])

RECURSIVE unquoteFrom(_, _)
\* The decoding of s from position i on. The two-byte UTF-8 sequences C2 B2
\* (U+00B2) and D9 A3 (U+0663) decode to their character; any other byte of
\* 0x80 or more decodes to U+FFFD.
unquoteFrom(s, i) ==
    LET escapes == {k \in i..Len(s) : EscapeAt(s, k)}
    IN  IF escapes = {} THEN Slice(s, i, Len(s))
        ELSE LET p == CHOOSE k \in escapes : \A l \in escapes : k <= l
             IN  Slice(s, i, p - 1) \o
                 (IF EscapeAt(s, p + 3) /\ ByteAt(s, p) = 194 /\ ByteAt(s, p + 3) = 178
                  THEN <<SUP2>> \o unquoteFrom(s, p + 6)
                  ELSE IF EscapeAt(s, p + 3) /\ ByteAt(s, p) = 217 /\ ByteAt(s, p + 3) = 163
                  THEN <<ARABIC3>> \o unquoteFrom(s, p + 6)
                  ELSE <<Chr(ByteAt(s, p))>> \o unquoteFrom(s, p + 3))

\* urllib.parse.unquote(s): every %XX escape replaced by the character it encodes;
\* a % that starts no escape is kept.
unquote(s) == unquoteFrom(s, 1)

(***************************************************************************)
(* dict: the sequence of <<key, value>> items in insertion order.          *)
(***************************************************************************)
DictHas(d, k) == \E j \in 1..Len(d) : d[j][1] = k

DictGet(d, k) == d[CHOOSE j \in 1..Len(d) : d[j][1] = k][2]

DictSetMovingToEnd(d, k, v) ==
    Append(SelectSeq(d, LAMBDA e : e[1] # k), <<k, v>>)

\* d[k] = v: a present key keeps its position and takes the new value, a new key
\* is appended.
DictSet(d, k, v) ==
    IF DictHas(d, k)
    THEN [j \in 1..Len(d) |-> IF d[j][1] = k THEN <<k, v>> ELSE d[j]]
    ELSE Append(d, <<k, v>>)

(***************************************************************************)
(* Python int and float. A Python int is unbounded and a float is an IEEE  *)
(* 754 double with a 53-bit significand, so both are kept exactly: a       *)
(* natural is a sequence of limbs below 2^15, least significant first,     *)
(* without a leading zero limb; zero is the empty sequence.                *)
(***************************************************************************)
LIMB == 2 ^ 15

\* The limbs without the zero limbs at the significant end.
Normal(a) ==
    LET nz == {k \in 1..Len(a) : a[k] # 0}
    IN  IF nz = {} THEN <<>>
        ELSE SubSeq(a, 1, CHOOSE k \in nz : \A j \in nz : j <= k)

RECURSIVE MulFrom(_, _, _, _)
\* The limbs of a * f + carry from limb k on, for f and carry below 2^15.
MulFrom(a, f, k, carry) ==
    IF k > Len(a) THEN (IF carry = 0 THEN <<>> ELSE <<carry>>)
    ELSE LET v == a[k] * f + carry
         IN  <<v % LIMB>> \o MulFrom(a, f, k + 1, v \div LIMB)

\* a * f for a factor f below 2^15.
MulSmall(a, f) == Normal(MulFrom(a, f, 1, 0))

\* a + c for an addend c below 2^15.
AddSmall(a, c) == MulFrom(a, 1, 1, c)

RECURSIVE DivFrom(_, _, _, _)
\* Quotient limbs 1..k and remainder of (rem, a[k], ..., a[1]) by d <= 2^15.
DivFrom(a, d, k, rem) ==
    IF k = 0 THEN [q |-> <<>>, r |-> rem]
    ELSE LET v    == rem * LIMB + a[k]
             rest == DivFrom(a, d, k - 1, v % d)
         IN  [q |-> <<v \div d>> \o rest.q, r |-> rest.r]

\* Quotient q and remainder r of a by a divisor d <= 2^15.
DivSmall(a, d) ==
    LET res == DivFrom(a, d, Len(a), 0)
    IN  [q |-> Normal([k \in 1..Len(a) |-> res.q[Len(a) + 1 - k]]), r |-> res.r]

\* The number of bits of a: 0 for zero.
BitLen(a) ==
    IF a = <<>> THEN 0
    ELSE 15 * (Len(a) - 1)
           + (CHOOSE b \in 1..15 : 2 ^ (b - 1) <= a[Len(a)] /\ a[Len(a)] < 2 ^ b)

\* a * 2^n
ShiftLeft(a, n) ==
    IF a = <<>> THEN <<>>
    ELSE [k \in 1..(n \div 15) |-> 0] \o MulSmall(a, 2 ^ (n % 15))

\* a \div 2^n
ShiftRight(a, n) ==
    IF n \div 15 >= Len(a) THEN <<>>
    ELSE DivSmall(SubSeq(a, (n \div 15) + 1, Len(a)), 2 ^ (n % 15)).q

RECURSIVE NatOfDigits(_, _)
\* The natural written by the first k decimal digits of ds, read four digits
\* at a time.
NatOfDigits(ds, k) ==
    IF k = 0 THEN <<>>
    ELSE LET lo == IF k > 4 THEN k - 4 ELSE 0
         IN  AddSmall(MulSmall(NatOfDigits(ds, lo), 10 ^ (k - lo)),
                      IntValue(SubSeq(ds, lo + 1, k)))

\* The four decimal digits of n < 10000.
FourDigits(n) ==
    <<DigitChar(n \div 1000), DigitChar((n \div 100) % 10),
      DigitChar((n \div 10) % 10), DigitChar(n % 10)>>

RECURSIVE DigitsOfNat(_)
\* The decimal digits of a natural, written four digits at a time; none for zero.
DigitsOfNat(a) ==
    IF a = <<>> THEN <<>>
    ELSE LET d == DivSmall(a, 10000)
         IN  IF d.q = <<>> THEN str(d.r) ELSE DigitsOfNat(d.q) \o FourDigits(d.r)

\* A Python int: a sign and a magnitude; zero has no sign.
PyInt(neg, mag) == [neg |-> neg /\ mag # <<>>, mag |-> mag]

\* str(n) for a Python int.
strPyInt(n) ==
    IF n.mag = <<>> THEN <<"0">>
    ELSE (IF n.neg THEN <<"-">> ELSE <<>>) \o DigitsOfNat(n.mag)

(***************************************************************************)
(* float(s) and int(float(s) * 1000)                                       *)
(***************************************************************************)
\* The significand of a double.
MantissaBits == 53

\* The factor of parse_cloudfront_log: milliseconds in a second.
MILLIS == 1000

\* Rounding toward zero of q + r/d: the bits beyond the significand are dropped.
RoundTowardZero(q, r, d) == q

\* Rounding to nearest, ties to even, of q + r/d, where 0 <= r < d.
RoundHalfEven(q, r, d) ==
    IF 2 * r > d \/ (2 * r = d /\ q # <<>> /\ q[1] % 2 = 1) THEN AddSmall(q, 1) ELSE q

\* s is digits[.digits] or .digits, with at least one digit (decimal digits).
IsPlainDecimal(s) ==
    LET parts == split1(s, <<".">>)
        whole == parts[1]
        frac  == IF Len(parts) = 2 THEN parts[2] ELSE <<>>
    IN  /\ Len(whole) + Len(frac) > 0
        /\ \A k \in 1..Len(whole) : whole[k] \in DecimalChars
        /\ \A k \in 1..Len(frac) : frac[k] \in DecimalChars

\* The sign and the unsigned rest of a stripped numeric literal.
Unsigned(t) == IF Len(t) > 0 /\ t[1] \in {"+", "-"} THEN Tail(t) ELSE t

IsInfinity(u) == lower(u) \in {<<"i", "n", "f">>, <<"i", "n", "f", "i", "n", "i", "t", "y">>}

IsNan(u) == lower(u) = <<"n", "a", "n">>

\* The double nearest to the plain decimal whole.frac, as mant / 2^scale with
\* mant of 53 bits (54 when rounding carried), or mant zero. The fraction has at
\* most four digits and the whole part is below 2^53: the capture times drawn.
FloatOf(whole, frac) ==
    LET n     == NatOfDigits(whole \o frac, Len(whole) + Len(frac))
        ten   == 10 ^ Len(frac)
        int   == NatOfDigits(whole, Len(whole))
        small == IntValue(whole \o frac)
        scale == IF int # <<>> THEN MantissaBits - BitLen(int)
                 ELSE (MantissaBits - 1)
                        + (CHOOSE j \in 1..14 : /\ small * 2 ^ j >= ten
                                                /\ small * 2 ^ (j - 1) < ten)
        d     == DivSmall(ShiftLeft(n, scale), ten)
    IN  IF n = <<>> THEN [mant |-> <<>>, scale |-> 0]
        ELSE [mant |-> RoundHalfEven(d.q, d.r, ten), scale |-> scale]

\* x * f for a double x and a small int f: the exact product rounded to the
\* nearest double.
FloatTimes(x, f) ==
    LET p    == MulSmall(x.mant, f)
        drop == BitLen(p) - MantissaBits
        d    == DivSmall(p, 2 ^ drop)
    IN  IF drop <= 0 THEN [mant |-> p, scale |-> x.scale]
        ELSE [mant |-> RoundHalfEven(d.q, d.r, 2 ^ drop), scale |-> x.scale - drop]

\* int(x) for a double x >= 0: the fraction is dropped.
IntOfFloat(x) ==
    IF x.scale >= 0 THEN ShiftRight(x.mant, x.scale) ELSE ShiftLeft(x.mant, 0 - x.scale)

\* int(float(s) * 1000) for a plain decimal literal s. float() strips
\* whitespace and reads an optional sign; the sign carries through the product
\* and int() truncates toward zero. Exponent forms (1e3) and digit separators
\* (1_0) are outside the inputs of this model.
TimestampOf(s) ==
    LET t     == strip(s)
        u     == Unsigned(t)
        parts == split1(u, <<".">>)
        frac  == IF Len(parts) = 2 THEN parts[2] ELSE <<>>
        mag   == IntOfFloat(FloatTimes(FloatOf(parts[1], frac), MILLIS))
    IN  IF IsNan(u) THEN [kind |-> "raise", exc |-> "ValueError"]
        ELSE IF IsInfinity(u) THEN [kind |-> "raise", exc |-> "OverflowError"]
        ELSE IF ~IsPlainDecimal(u) THEN [kind |-> "raise", exc |-> "ValueError"]
        ELSE [kind |-> "ok", value |-> PyInt(Len(t) > 0 /\ t[1] = "-", mag)]

(***************************************************************************)
(* src/lambda_function.py                                                  *)
(***************************************************************************)
\* The literal 'CMCD-' of extract_cmcd_headers.
CMCD_PREFIX == <<"C", "M", "C", "D", "-">>

\* The literal 'cmcd_' of the measure names, and the measure name 'time_taken'.
MEASURE_PREFIX == <<"c", "m", "c", "d", "_">>

TIME_TAKEN == <<"t", "i", "m", "e", "_", "t", "a", "k", "e", "n">>

parse_cmcd_pair_keeping_quotes(parsed, pair) ==
    IF Contains(pair, <<"=">>)
    THEN LET kv == split1(pair, <<"=">>)
         IN  DictSet(parsed, strip(kv[1]), strip(kv[2]))
    ELSE parsed

parse_cmcd_pair_keeping_flags(parsed, pair) ==
    IF Contains(pair, <<"=">>)
    THEN LET kv == split1(pair, <<"=">>)
         IN  DictSet(parsed, strip(kv[1]), stripChars(strip(kv[2]), {"\""}))
    ELSE DictSet(parsed, strip(pair), <<>>)

\* One iteration of the loop of parse_cmcd_value: the mapping after the pair.
parse_cmcd_pair(parsed, pair) ==
    IF Contains(pair, <<"=">>)
    THEN LET kv == split1(pair, <<"=">>)
         IN  DictSet(parsed, strip(kv[1]), stripChars(strip(kv[2]), {"\""}))
    ELSE parsed

RECURSIVE parse_cmcd_pairs(_, _)
\* The loop of parse_cmcd_value over the comma-delimited pairs, in order.
parse_cmcd_pairs(parsed, pairs) ==
    IF pairs = <<>> THEN parsed
    ELSE parse_cmcd_pairs(parse_cmcd_pair(parsed, Head(pairs)), Tail(pairs))

parse_cmcd_value(value) == parse_cmcd_pairs(<<>>, split(value, <<",">>))

extract_cmcd_header_any_case(cmcd_data, header) ==
    IF Contains(lower(header), lower(CMCD_PREFIX))
    THEN LET parts == split1(header, <<":">>)
         IN  IF Len(parts) = 2
             THEN LET key   == lower(replace(strip(parts[1]), CMCD_PREFIX, <<>>))
                      value == strip(parts[2])
                  IN  DictSet(cmcd_data, key, parse_cmcd_value(value))
             ELSE cmcd_data
    ELSE cmcd_data

extract_cmcd_header_merging(cmcd_data, header) ==
    IF Contains(header, CMCD_PREFIX)
    THEN LET parts == split1(header, <<":">>)
         IN  IF Len(parts) = 2
             THEN LET key   == lower(replace(strip(parts[1]), CMCD_PREFIX, <<>>))
                      value == strip(parts[2])
                      old   == IF DictHas(cmcd_data, key) THEN DictGet(cmcd_data, key)
                               ELSE <<>>
                  IN  DictSet(cmcd_data, key,
                              parse_cmcd_pairs(old, split(value, <<",">>)))
             ELSE cmcd_data
    ELSE cmcd_data

\* One iteration of the loop of extract_cmcd_headers: the mapping after the line.
extract_cmcd_header(cmcd_data, header) ==
    IF Contains(header, CMCD_PREFIX)
    THEN LET parts == split1(header, <<":">>)
         IN  IF Len(parts) = 2
             THEN LET key   == lower(replace(strip(parts[1]), CMCD_PREFIX, <<>>))
                      value == strip(parts[2])
                  IN  DictSet(cmcd_data, key, parse_cmcd_value(value))
             ELSE cmcd_data
    ELSE cmcd_data

RECURSIVE extract_cmcd_lines(_, _)
\* The loop of extract_cmcd_headers over the lines of the header block, in order.
extract_cmcd_lines(cmcd_data, headers) ==
    IF headers = <<>> THEN cmcd_data
    ELSE extract_cmcd_lines(extract_cmcd_header(cmcd_data, Head(headers)), Tail(headers))

extract_cmcd_headers(headers_str) == extract_cmcd_lines(<<>>, split(headers_str, <<LF>>))

\* The number of fields below which parse_cloudfront_log rejects a line.
MIN_FIELDS == 10

\* log_line.strip().split('\t')
FieldsOf(log_line) == split(strip(log_line), <<TAB>>)

TooFewFieldsOffByOne(fields) == Len(fields) < MIN_FIELDS - 1

\* `if len(fields) < 10`
TooFewFields(fields) == Len(fields) < MIN_FIELDS

\* int(fields[7]) if fields[7].isdigit() else 0: isdigit() is true of digits
\* that int() does not read, and int() raises ValueError on them.
TimeTakenOf(field) ==
    IF ~isdigit(field) THEN [kind |-> "ok", value |-> 0]
    ELSE IF IntAccepts(field) THEN [kind |-> "ok", value |-> IntValue(field)]
    ELSE [kind |-> "raise", exc |-> "ValueError"]

\* parse_cloudfront_log(log_line): [kind |-> "None"], [kind |-> "raise", exc]
\* or [kind |-> "ok", rec |-> the dict]. Python indices are 0-based: fields[6]
\* is the 7th field. The dict's values are evaluated in order, so a capture time
\* that float() rejects raises before the time-taken field is read.
parse_cloudfront_log(log_line) ==
    LET fields == FieldsOf(log_line)
    IN  IF TooFewFields(fields) THEN [kind |-> "None"]
        ELSE LET headers   == unquote(fields[7])
                 cmcd_data == extract_cmcd_headers(headers)
                 timestamp == TimestampOf(fields[1])
                 taken     == TimeTakenOf(fields[8])
             IN  IF timestamp.kind = "raise" THEN timestamp
                 ELSE IF taken.kind = "raise" THEN taken
                 ELSE [kind |-> "ok",
                       rec  |-> [timestamp     |-> timestamp.value,
                                 client_ip     |-> fields[2],
                                 status        |-> fields[3],
                                 uri           |-> fields[5],
                                 time_taken    |-> taken.value,
                                 edge_location |-> fields[9],
                                 cmcd_data     |-> cmcd_data]]

\* str(n) for any int.
strInt(n) == IF n < 0 THEN <<"-">> \o str(0 - n) ELSE str(n)

\* The base dimensions of create_timestream_records.
BaseDimensions(log_data) ==
    << [Name |-> "client_ip", Value |-> log_data.client_ip],
       [Name |-> "edge_location", Value |-> log_data.edge_location],
       [Name |-> "status", Value |-> log_data.status] >>

TimeTakenPoint(log_data) ==
    [Time             |-> strPyInt(log_data.timestamp),
     TimeUnit         |-> "MILLISECONDS",
     Dimensions       |-> BaseDimensions(log_data),
     MeasureName      |-> TIME_TAKEN,
     MeasureValue     |-> strInt(log_data.time_taken),
     MeasureValueType |-> "BIGINT"]

CmcdPointWithoutType(log_data, cmcd_type, key, value) ==
    [Time             |-> strPyInt(log_data.timestamp),
     TimeUnit         |-> "MILLISECONDS",
     Dimensions       |-> BaseDimensions(log_data),
     MeasureName      |-> MEASURE_PREFIX \o key,
     MeasureValue     |-> value,
     MeasureValueType |-> "BIGINT"]

CmcdPoint(log_data, cmcd_type, key, value) ==
    [Time             |-> strPyInt(log_data.timestamp),
     TimeUnit         |-> "MILLISECONDS",
     Dimensions       |-> BaseDimensions(log_data)
                            \o << [Name |-> "cmcd_type", Value |-> cmcd_type] >>,
     MeasureName      |-> MEASURE_PREFIX \o key,
     MeasureValue     |-> value,
     MeasureValueType |-> "BIGINT"]

EmitsPointAlways(value) == TRUE

\* `if value.isdigit()`
EmitsPoint(value) == isdigit(value)

RECURSIVE CmcdValuePoints(_, _, _)
\* The inner loop of create_timestream_records: the points of one category.
CmcdValuePoints(log_data, cmcd_type, cmcd_values) ==
    IF cmcd_values = <<>> THEN <<>>
    ELSE LET key   == Head(cmcd_values)[1]
             value == Head(cmcd_values)[2]
         IN  (IF EmitsPoint(value)
              THEN <<CmcdPoint(log_data, cmcd_type, key, value)>>
              ELSE <<>>)
               \o CmcdValuePoints(log_data, cmcd_type, Tail(cmcd_values))

RECURSIVE CmcdPoints(_, _)
\* The outer loop of create_timestream_records, over the categories in order.
CmcdPoints(log_data, cmcd_data) ==
    IF cmcd_data = <<>> THEN <<>>
    ELSE CmcdValuePoints(log_data, Head(cmcd_data)[1], Head(cmcd_data)[2])
           \o CmcdPoints(log_data, Tail(cmcd_data))

create_timestream_records(log_data) ==
    <<TimeTakenPoint(log_data)>> \o CmcdPoints(log_data, log_data.cmcd_data)

(***************************************************************************)
(* Inputs: log lines built from a description of their fields and of the   *)
(* header block their 7th field carries percent-encoded.                   *)
(***************************************************************************)
\* The most records of one event, and the most items (header names and
\* key=value segments) of one header block.
MaxRecords == 2

MaxItems == 3

\* A header name starts a header line; the segments after it are its value.
NameItem(name) == [t |-> "name", name |-> name]

\* A segment: key and value, whether it has an '=', whether the value is wrapped
\* in double quotes, and whether spaces surround the key and the value.
SegItem(k, v, eq, quoted, pad) ==
    [t |-> "seg", k |-> k, v |-> v, eq |-> eq, quoted |-> quoted, pad |-> pad]

\* The items, by name.
ItemOf(id) ==
    CASE id = "Request" -> NameItem(<<"C", "M", "C", "D", "-", "R", "e", "q", "u", "e", "s", "t">>)
      [] id = "Object"  -> NameItem(<<"C", "M", "C", "D", "-", "O", "b", "j", "e", "c", "t">>)
      [] id = "Agent"   -> NameItem(<<"U", "s", "e", "r", "-", "A", "g", "e", "n", "t">>)
      [] id = "br"      -> SegItem(<<"b", "r">>, <<"4", "2", "0", "0">>, TRUE, FALSE, FALSE)
      [] id = "cid"     -> SegItem(<<"c", "i", "d">>, <<"a", "b", "c", "1", "2", "3">>, TRUE, TRUE, FALSE)
      [] id = "bl"      -> SegItem(<<"b", "l">>, <<"3", ".", "1", "4">>, TRUE, FALSE, TRUE)
      [] id = "su"      -> SegItem(<<"s", "u">>, <<>>, FALSE, FALSE, FALSE)
      [] id = "rtp"     -> SegItem(<<"r", "t", "p">>, <<SUP2>>, TRUE, FALSE, FALSE)
      [] id = "lower"   -> NameItem(<<"c", "m", "c", "d", "-", "r", "e", "q", "u", "e", "s", "t">>)
      [] id = "sid"     -> SegItem(<<"s", "i", "d">>, <<"\"", "x", "\"">>, TRUE, TRUE, FALSE)
      [] id = "nor"     -> SegItem(<<"n", "o", "r">>, <<"a", ":", "b">>, TRUE, FALSE, FALSE)
      [] id = "cidsp"   -> SegItem(<<"c", "i", "d">>, <<" ", "x", " ">>, TRUE, TRUE, FALSE)

NameIds == {"Request", "Object", "Agent"}

SegIds == {"br", "cid", "bl", "su", "rtp"}

ItemIds == NameIds \cup SegIds

\* Items of the header blocks written out one by one below: a lower-case header
\* name, a value that itself begins and ends with a double quote (written
\* sid=""x""), a value with a colon, and a quoted value with spaces inside the
\* quotes (written cid=" x "). The blocks below are longer than MaxItems or carry
\* one of these items.
AllNameIds == NameIds \cup {"lower"}

AllSegIds == SegIds \cup {"sid", "nor", "cidsp"}

ExtraBlocks ==
    { <<"Request", "br", "Object", "br">>,
      <<"Request", "br", "Request", "cid">>,
      <<"Request", "br", "su", "cid">>,
      <<"lower", "br">>,
      <<"Request", "br", "lower", "cid">>,
      <<"lower", "br", "Request", "cid">>,
      <<"Request", "nor", "lower", "br">>,
      <<"Request", "sid">>,
      <<"Request", "br", "sid">>,
      <<"Request", "nor">>,
      <<"Request", "nor", "br">>,
      <<"Request", "cidsp">>,
      <<"Request", "br", "Object", "br", "Request", "br">>,
      <<"Request", "br", "Object", "br", "Request", "rtp", "br">> }

\* The header blocks, each the sequence of the names of its items: no item, or a
\* header name followed by further items.
Blocks ==
    {<<>>} \cup
    UNION { { <<n>> \o rest : n \in NameIds, rest \in [1..m -> ItemIds] }
            : m \in 0..(MaxItems - 1) }

RenderSeg(g) ==
    LET sp  == IF g.pad THEN <<" ">> ELSE <<>>
        val == IF g.quoted THEN <<"\"">> \o g.v \o <<"\"">> ELSE g.v
    IN  IF g.eq THEN sp \o g.k \o sp \o <<"=">> \o sp \o val \o sp
        ELSE g.k

RECURSIVE RenderItems(_, _)
\* The text of the items from position j on: `Name: seg,seg` lines joined by
\* newlines.
RenderItems(b, j) ==
    IF j > Len(b) THEN <<>>
    ELSE (IF b[j] \in AllNameIds
          THEN (IF j > 1 THEN <<LF>> ELSE <<>>) \o ItemOf(b[j]).name \o <<":", " ">>
          ELSE (IF b[j - 1] \in AllSegIds THEN <<",">> ELSE <<>>) \o RenderSeg(ItemOf(b[j])))
           \o RenderItems(b, j + 1)

RenderBlock(b) == RenderItems(b, 1)

\* Percent-encoding as the log producer writes it.
QuoteChar(c) ==
    CASE c = LF   -> <<"%", "0", "A">>
      [] c = " "  -> <<"%", "2", "0">>
      [] c = "\"" -> <<"%", "2", "2">>
      [] c = "%"  -> <<"%", "2", "5">>
      [] c = SUP2 -> <<"%", "C", "2", "%", "B", "2">>
      [] OTHER    -> <<c>>

RECURSIVE Quote(_)
Quote(s) == IF s = <<>> THEN <<>> ELSE QuoteChar(Head(s)) \o Quote(Tail(s))

RECURSIVE Join(_, _)
\* sep.join(parts)
Join(parts, sep) ==
    IF parts = <<>> THEN <<>>
    ELSE IF Len(parts) = 1 THEN parts[1]
    ELSE parts[1] \o sep \o Join(Tail(parts), sep)

\* Capture times (field 0) and time-taken values (field 7).
CaptureTimes == { <<"1", ".", "5">>, <<"2", "0">>, <<"a", "b", "c">>, <<>>, <<"n", "a", "n">> }

\* Capture times with up to four decimals, of either sign: seconds near zero,
\* where a double holds few of them exactly, and seconds since the epoch.
DecimalCaptureTimes ==
    { sign \o whole \o frac :
        sign \in { <<>>, <<"-">> },
        whole \in { <<"0">>, <<"1">>, <<"2">>,
                    <<"1", "7", "0", "0", "0", "0", "0", "0", "0", "0">> },
        frac \in { <<>>, <<".", "0", "0", "1">>, <<".", "0", "0", "9">>,
                   <<".", "1", "2", "3">>, <<".", "5">>, <<".", "1", "2", "3", "4">> } }

TimeTakens ==
    { <<"2", "5", "0">>, <<"0", "0", "7">>, <<"a", "b", "c">>, <<>>, <<"1", "2", "a">>,
      <<SUP2>>, <<ARABIC3>>, <<"0">> }

\* What follows the 9th field (the edge location): nothing (a 9-field line),
\* one or two further fields, empty or not.
Tails == { <<>>, << <<"x">> >>, << <<"x">>, <<"y">> >>, << <<>> >>, << <<>>, <<>> >>,
           << <<" ">> >>, << <<>>, <<"y">> >> }

EndOfLines == { <<>>, <<LF>> }

\* A line: capture time, client IP, status, -, URI, -, headers, time-taken,
\* edge location, then the tail and the end of line.
LineOf(t0, block, taken, tail, eol) ==
    Join(<< t0, <<"1", ".", "2", ".", "3", ".", "4">>, <<"2", "0", "0">>, <<"-">>,
            <<"/", "v", ".", "m", "p", "4">>, <<"-">>, Quote(RenderBlock(block)), taken,
            <<"I", "A", "D", "5", "0">> >> \o tail, <<TAB>>) \o eol

\* Lines cut short: fewer than 9 fields.
ShortLines ==
    { <<>>, <<LF>>, <<"1", ".", "5">>, <<"1", ".", "5", TAB, "x", TAB, "y">> }

BaseBlock == <<"Request", "br">>

PlainBlock == <<"Agent", "br">>

\* The inputs of the decoder: every header block in an otherwise plain line,
\* every combination of the other fields around three header blocks, and every
\* decimal capture time in an otherwise plain line.
DecodeInputs ==
    { [block |-> b, line |-> LineOf(<<"1", ".", "5">>, b, <<"2", "5", "0">>, << <<"x">> >>, <<LF>>)]
        : b \in Blocks \cup ExtraBlocks }
    \cup
    { [block |-> b, line |-> LineOf(t0, b, taken, tail, eol)]
        : b \in {<<>>, BaseBlock, PlainBlock}, t0 \in CaptureTimes, taken \in TimeTakens,
          tail \in Tails, eol \in EndOfLines }
    \cup
    { [block |-> BaseBlock,
       line |-> LineOf(t0, BaseBlock, <<"2", "5", "0">>, << <<"x">> >>, <<LF>>)]
        : t0 \in DecimalCaptureTimes }
    \cup
    { [block |-> <<>>, line |-> l] : l \in ShortLines }

\* The payloads of the events lambda_handler is run on.
HandlerLines ==
    { LineOf(<<"1", ".", "5">>, BaseBlock, <<"2", "5", "0">>, << <<"x">> >>, <<LF>>),
      LineOf(<<"2", "0">>, <<"Request", "br", "Object", "br">>,
             <<"a", "b", "c">>, << <<"x">>, <<"y">> >>, <<>>),
      LineOf(<<"1", ".", "5">>, PlainBlock, <<"2", "5", "0">>, << <<"x">> >>, <<LF>>),
      LineOf(<<"1", ".", "5">>, <<>>, <<"0", "0", "7">>, << <<"x">> >>, <<>>),
      LineOf(<<"1", ".", "5">>, BaseBlock, <<"2", "5", "0">>, <<>>, <<LF>>),
      LineOf(<<"1", ".", "5">>, BaseBlock, <<"2", "5", "0">>, << <<>> >>, <<LF>>),
      LineOf(<<"a", "b", "c">>, BaseBlock, <<"2", "5", "0">>, << <<"x">> >>, <<LF>>),
      LineOf(<<"1", ".", "5">>, BaseBlock, <<SUP2>>, << <<"x">> >>, <<LF>>),
      <<"1", ".", "5", TAB, "x", TAB, "y">> }

Events == UNION { [1..n -> HandlerLines \cup ShortLines] : n \in 0..MaxRecords }

(***************************************************************************)
(* State.                                                                  *)
(*   event    the payloads of event['Records'], each the text that         *)
(*            base64.b64decode(...).decode('utf-8') yields                 *)
(*   i        the record the loop of lambda_handler is at (1-based)        *)
(*   records  the local list `records` of lambda_handler                   *)
(*   added    per record handled, the points it added to `records`         *)
(*   written  the Records argument of each timestream.write_records call   *)
(*   pc       "loop", "done" (returned), "raised" (an exception left       *)
(*            lambda_handler), "idle" (lambda_handler is not run)          *)
(*   result   the value lambda_handler returned                            *)
(*   input    the line given to parse_cloudfront_log, with the header      *)
(*            block it was built from                                      *)
(*   log_data what parse_cloudfront_log returned or raised                 *)
(*   points   what create_timestream_records returned                      *)
(*   dpc      "start", "parsed", "built", or "idle"                        *)
(*   dimensions  the list object that the local `dimensions` of            *)
(*            create_timestream_records names                              *)
(*   building its local list `records`; the Dimensions of a point is the   *)
(*            list object `dimensions` itself (shared) or a list of the    *)
(*            point's own                                                  *)
(*   todo     the (cmcd_type, key, value) items its loops have yet to      *)
(*            visit                                                        *)
(*   bpc      its position: "enter", "time_taken", "loop", "returned", or  *)
(*            "idle"                                                       *)
(*   call     the arguments of a call of get_influxdb_client               *)
(*   outcome  what the call returned or raised                             *)
(*   logged   the logger.error messages of the call                        *)
(*   cpc      "called", "done", or "idle"                                  *)
(*   session  the MCP session process_query is given                       *)
(*   messages, final_text, output_message, system_prompts,                 *)
(*            available_tools  the locals of process_query of these names  *)
(*   pos      the content block its for loop is at (1-based)               *)
(*   toolCalls  the calls of session.call_tool, each with what it returned *)
(*   requests the number of messages given to each bedrock.converse call   *)
(*   answer   the value process_query returned                             *)
(*   qpc      "start", "converse", "content", "returned", "raised", "idle" *)
(*   tool_call  the arguments of a call of get_cmcd_data or influxdb_query *)
(*   client   the InfluxDB client the call created, with its closed flag   *)
(*   tables   the records query_api.query returned                         *)
(*   rows     the local list `result` of the call                          *)
(*   error    str(e) of the exception the call caught                      *)
(*   ret      the value the call returned                                  *)
(*   spc      "called", "client", "rows", "except", "returned", "idle"     *)
(*   env      INFLUXDB_URL and VERIFY_SSL of check_influxdb, and whether   *)
(*            the port on localhost accepts connections                    *)
(*   attempts the calls of test_connection main made, with their outcome   *)
(*   exit_code  what main returned or raised                               *)
(*   kpc      "start", "current", "https", "http", "returned", "raised",   *)
(*            or "idle"                                                    *)
(***************************************************************************)
VARIABLES event, i, records, added, written, pc, result, input, log_data, points, dpc,
          dimensions, building, todo, bpc, call, outcome, logged, cpc,
          session, messages, final_text, output_message, pos, toolCalls, requests,
          system_prompts, available_tools, answer, qpc,
          tool_call, client, tables, rows, error, ret, spc,
          env, attempts, exit_code, kpc

vars == <<event, i, records, added, written, pc, result, input, log_data, points, dpc,
          dimensions, building, todo, bpc, call, outcome, logged, cpc,
          session, messages, final_text, output_message, pos, toolCalls, requests,
          system_prompts, available_tools, answer, qpc,
          tool_call, client, tables, rows, error, ret, spc,
          env, attempts, exit_code, kpc>>

handlerVars == <<event, i, records, added, written, pc, result>>

decodeVars == <<input, log_data, points, dpc>>

buildVars == <<dimensions, building, todo, bpc>>

clientVars == <<call, outcome, logged, cpc>>

queryVars == <<session, messages, final_text, output_message, pos, toolCalls, requests,
               system_prompts, available_tools, answer, qpc>>

serverVars == <<tool_call, client, tables, rows, error, ret, spc>>

checkVars == <<env, attempts, exit_code, kpc>>

\* The variables of the programs under src/mcp and src/cmcd.
mcpVars == <<queryVars, serverVars, checkVars>>

NoResult == [statusCode |-> 0, processed |-> 0]

HandlerIdle ==
    /\ event = <<>>
    /\ i = 1
    /\ records = <<>>
    /\ added = <<>>
    /\ written = <<>>
    /\ pc = "idle"
    /\ result = NoResult

DecodeIdle ==
    /\ input = [block |-> <<>>, line |-> <<>>]
    /\ log_data = [kind |-> "unset"]
    /\ points = <<>>
    /\ dpc = "idle"

BuildIdle ==
    /\ dimensions = <<>>
    /\ building = <<>>
    /\ todo = <<>>
    /\ bpc = "idle"

\* The Python value None, and a str.
None == [type |-> "None", text |-> <<>>]

Str(text) == [type |-> "str", text |-> text]

\* A Python int and a Python bool.
IntObject(n) == [type |-> "int", value |-> n]

BoolObject(b) == [type |-> "bool", value |-> b]

ClientIdle ==
    /\ call = [url |-> None, token |-> None, org |-> None, timeout |-> IntObject(0),
               verify_ssl |-> FALSE]
    /\ outcome = [kind |-> "unset"]
    /\ logged = <<>>
    /\ cpc = "idle"

QueryIdle ==
    /\ session = [tools |-> <<>>, prompts |-> "empty", prompt_text |-> ""]
    /\ messages = <<>>
    /\ final_text = <<>>
    /\ output_message = [role |-> "assistant", content |-> <<>>]
    /\ pos = 1
    /\ toolCalls = <<>>
    /\ requests = <<>>
    /\ system_prompts = <<>>
    /\ available_tools = [tools |-> <<>>]
    /\ answer = <<>>
    /\ qpc = "idle"

ServerIdle ==
    /\ tool_call = [fn |-> "", query |-> "", url |-> None, token |-> None, org |-> None,
                    verify_ssl |-> FALSE]
    /\ client = [kind |-> "none"]
    /\ tables = <<>>
    /\ rows = <<>>
    /\ error = ""
    /\ ret = [status |-> "unset"]
    /\ spc = "idle"

CheckIdle ==
    /\ env = [url |-> None, verify_ssl |-> FALSE, port |-> 0, port_open |-> FALSE]
    /\ attempts = <<>>
    /\ exit_code = [kind |-> "unset"]
    /\ kpc = "idle"

McpIdle == QueryIdle /\ ServerIdle /\ CheckIdle

(***************************************************************************)
(* lambda_handler, one action per iteration of its loop and one per way    *)
(* of leaving it.                                                          *)
(***************************************************************************)
Init ==
    /\ event \in Events
    /\ i = 1
    /\ records = <<>>
    /\ added = <<>>
    /\ written = <<>>
    /\ pc = "loop"
    /\ result = NoResult
    /\ DecodeIdle
    /\ BuildIdle
    /\ ClientIdle
    /\ McpIdle

\* `if log_data and log_data.get('cmcd_data')`: a dict and a non-empty mapping.
Collects(parsed) == parsed.kind = "ok" /\ parsed.rec.cmcd_data # <<>>

ExtendReplacing(list, new) == new

\* list.extend(new)
Extend(list, new) == list \o new

\* An iteration whose record is not None and has CMCD data: its points are
\* appended to records.
CollectRecord ==
    /\ pc = "loop"
    /\ i <= Len(event)
    /\ LET parsed == parse_cloudfront_log(event[i])
       IN  /\ Collects(parsed)
           /\ records' = Extend(records, create_timestream_records(parsed.rec))
           /\ added' = Append(added, create_timestream_records(parsed.rec))
    /\ i' = i + 1
    /\ UNCHANGED <<event, written, pc, result, decodeVars, buildVars, clientVars, mcpVars>>

\* An iteration whose record is None or has no CMCD data: nothing is appended.
SkipRecord ==
    /\ pc = "loop"
    /\ i <= Len(event)
    /\ LET parsed == parse_cloudfront_log(event[i])
       IN  parsed.kind = "None" \/ (parsed.kind = "ok" /\ parsed.rec.cmcd_data = <<>>)
    /\ added' = Append(added, <<>>)
    /\ i' = i + 1
    /\ UNCHANGED <<event, records, written, pc, result, decodeVars, buildVars, clientVars, mcpVars>>

\* An iteration in which parse_cloudfront_log raises: lambda_handler has no
\* try, so the exception leaves it; nothing is written and nothing returned.
RaiseInRecord ==
    /\ pc = "loop"
    /\ i <= Len(event)
    /\ parse_cloudfront_log(event[i]).kind = "raise"
    /\ pc' = "raised"
    /\ UNCHANGED <<event, i, records, added, written, result, decodeVars, buildVars, clientVars, mcpVars>>

\* After the loop, with points: one write_records call, then the return.
WriteRecords ==
    /\ pc = "loop"
    /\ i > Len(event)
    /\ records # <<>>
    /\ written' = Append(written, records)
    /\ result' = [statusCode |-> 200, processed |-> Len(records)]
    /\ pc' = "done"
    /\ UNCHANGED <<event, i, records, added, decodeVars, buildVars, clientVars, mcpVars>>

\* After the loop, without points: the return alone.
ReturnEmpty ==
    /\ pc = "loop"
    /\ i > Len(event)
    /\ records = <<>>
    /\ result' = [statusCode |-> 200, processed |-> 0]
    /\ pc' = "done"
    /\ UNCHANGED <<event, i, records, added, written, decodeVars, buildVars, clientVars, mcpVars>>

Next ==
    \/ CollectRecord
    \/ SkipRecord
    \/ RaiseInRecord
    \/ WriteRecords
    \/ ReturnEmpty

Spec == Init /\ [][Next]_vars

(***************************************************************************)
(* The decoder on one line: parse_cloudfront_log, then                     *)
(* create_timestream_records on the record it returned.                    *)
(***************************************************************************)
InitDecode ==
    /\ input \in DecodeInputs
    /\ log_data = [kind |-> "unset"]
    /\ points = <<>>
    /\ dpc = "start"
    /\ HandlerIdle
    /\ BuildIdle
    /\ ClientIdle
    /\ McpIdle

Parse ==
    /\ dpc = "start"
    /\ log_data' = parse_cloudfront_log(input.line)
    /\ dpc' = "parsed"
    /\ UNCHANGED <<input, points, handlerVars, buildVars, clientVars, mcpVars>>

Build ==
    /\ dpc = "parsed"
    /\ log_data.kind = "ok"
    /\ points' = create_timestream_records(log_data.rec)
    /\ dpc' = "built"
    /\ UNCHANGED <<input, log_data, handlerVars, buildVars, clientVars, mcpVars>>

NextDecode ==
    \/ Parse
    \/ Build

SpecDecode == InitDecode /\ [][NextDecode]_vars

(***************************************************************************)
(* create_timestream_records step by step, with the list objects it        *)
(* shares: the time_taken point holds the list `dimensions` itself, a CMCD *)
(* point holds the new list that `dimensions + [...]` builds.              *)
(***************************************************************************)
\* 'Dimensions': dimensions, a reference to the shared list object.
SharedDimensions == [shared |-> TRUE, list |-> <<>>]

\* 'Dimensions': a list object that only the point refers to.
OwnDimensions(list) == [shared |-> FALSE, list |-> list]

\* The point as a reader of the list `records` sees it.
Deref(point, shared_list) ==
    [point EXCEPT !.Dimensions = IF @.shared THEN shared_list ELSE @.list]

DerefAll(list, shared_list) == [p \in 1..Len(list) |-> Deref(list[p], shared_list)]

\* log_data['cmcd_data'].items() and cmcd_values.items(), flattened: the
\* (cmcd_type, key, value) triples in the order the two loops visit them.
RECURSIVE ItemsOf(_)
ItemsOf(cmcd_data) ==
    IF cmcd_data = <<>> THEN <<>>
    ELSE [a \in 1..Len(Head(cmcd_data)[2]) |->
             <<Head(cmcd_data)[1], Head(cmcd_data)[2][a][1], Head(cmcd_data)[2][a][2]>>]
           \o ItemsOf(Tail(cmcd_data))

\* dimensions + [{'Name': 'cmcd_type', 'Value': cmcd_type}]: the new list.
ConcatCmcdType(list, cmcd_type) == list \o << [Name |-> "cmcd_type", Value |-> cmcd_type] >>

DimensionsAppendedInPlace(list, cmcd_type) ==
    list \o << [Name |-> "cmcd_type", Value |-> cmcd_type] >>

\* The list object `dimensions` after `dimensions + [...]` was evaluated: list
\* concatenation leaves its operands as they are.
DimensionsAfterConcat(list, cmcd_type) == list

\* The records create_timestream_records is stepped through: every header block
\* in a plain line.
BuildInputs ==
    { [block |-> b, line |-> LineOf(<<"1", ".", "5">>, b, <<"2", "5", "0">>, << <<"x">> >>, <<LF>>)]
        : b \in Blocks \cup ExtraBlocks }

InitBuild ==
    /\ input \in BuildInputs
    /\ log_data = parse_cloudfront_log(input.line)
    /\ log_data.kind = "ok"
    /\ points = <<>>
    /\ dpc = "idle"
    /\ dimensions = <<>>
    /\ building = <<>>
    /\ todo = <<>>
    /\ bpc = "enter"
    /\ HandlerIdle
    /\ ClientIdle
    /\ McpIdle

\* Lines 72-80: records = [], and the list of the base dimensions.
SetUp ==
    /\ bpc = "enter"
    /\ building' = <<>>
    /\ dimensions' = BaseDimensions(log_data.rec)
    /\ bpc' = "time_taken"
    /\ UNCHANGED <<todo, decodeVars, handlerVars, clientVars, mcpVars>>

\* Lines 83-90: the time_taken point, its Dimensions the list `dimensions`.
AppendTimeTaken ==
    /\ bpc = "time_taken"
    /\ building' = Append(building,
                          [TimeTakenPoint(log_data.rec) EXCEPT !.Dimensions = SharedDimensions])
    /\ todo' = ItemsOf(log_data.rec.cmcd_data)
    /\ bpc' = "loop"
    /\ UNCHANGED <<dimensions, decodeVars, handlerVars, clientVars, mcpVars>>

\* Lines 93-103, value.isdigit(): a CMCD point with a list of its own.
AppendCmcdPoint ==
    /\ bpc = "loop"
    /\ todo # <<>>
    /\ LET cmcd_type == Head(todo)[1]
           key       == Head(todo)[2]
           value     == Head(todo)[3]
       IN  /\ EmitsPoint(value)
           /\ building' =
                Append(building,
                       [CmcdPoint(log_data.rec, cmcd_type, key, value)
                          EXCEPT !.Dimensions = OwnDimensions(ConcatCmcdType(dimensions, cmcd_type))])
           /\ dimensions' = DimensionsAfterConcat(dimensions, cmcd_type)
    /\ todo' = Tail(todo)
    /\ UNCHANGED <<bpc, decodeVars, handlerVars, clientVars, mcpVars>>

\* Lines 93-95, not value.isdigit(): no point.
SkipValue ==
    /\ bpc = "loop"
    /\ todo # <<>>
    /\ ~EmitsPoint(Head(todo)[3])
    /\ todo' = Tail(todo)
    /\ UNCHANGED <<dimensions, building, bpc, decodeVars, handlerVars, clientVars, mcpVars>>

\* Line 105: return records.
ReturnRecords ==
    /\ bpc = "loop"
    /\ todo = <<>>
    /\ points' = DerefAll(building, dimensions)
    /\ bpc' = "returned"
    /\ UNCHANGED <<input, log_data, dpc, dimensions, building, todo, handlerVars,
                   clientVars, mcpVars>>

NextBuild ==
    \/ SetUp
    \/ AppendTimeTaken
    \/ AppendCmcdPoint
    \/ SkipValue
    \/ ReturnRecords

SpecBuild == InitBuild /\ [][NextBuild]_vars

(***************************************************************************)
(* src/mcp/cmcd_server.py and src/mcp/influxdb_server.py:                  *)
(* get_influxdb_client, the same text in both files.                       *)
(***************************************************************************)
AsciiLower ==
    {"a", "b", "c", "d", "e", "f", "g", "h", "i", "j", "k", "l", "m", "n", "o", "p", "q",
     "r", "s", "t", "u", "v", "w", "x", "y", "z"}

\* c.isascii() and c.isalpha()
IsAsciiLetter(c) == LowerChar(c) \in AsciiLower

\* c in urllib.parse.scheme_chars
IsSchemeChar(c) == IsAsciiLetter(c) \/ c \in AsciiDigits \cup {"+", "-", "."}

\* url.lstrip(C0 control or space), then the removal of tab and newline.
UrlCleaned(text) ==
    LET keep  == {k \in 1..Len(text) : text[k] \notin {" ", TAB, LF}}
        first == IF keep = {} THEN Len(text) + 1
                 ELSE CHOOSE k \in keep : \A l \in keep : k <= l
    IN  SelectSeq(Slice(text, first, Len(text)), LAMBDA c : c \notin {TAB, LF})

\* urlparse(url): [kind |-> "ok", scheme] or [kind |-> "raise", exc]. The scheme
\* is the text before the first colon, lower-cased, when it starts with a letter
\* and is made of scheme characters; a // authority with one square bracket and
\* not the other raises ValueError. urlparse(None) has the scheme b'', which
\* equals neither 'https' nor 'http'.
urlparse(url) ==
    IF url.type = "None" THEN [kind |-> "ok", scheme |-> <<>>]
    ELSE LET text   == UrlCleaned(url.text)
             colon  == Find(text, <<":">>)
             has    == /\ colon > 1
                       /\ IsAsciiLetter(text[1])
                       /\ \A k \in 1..(colon - 1) : IsSchemeChar(text[k])
             scheme == IF has THEN lower(Slice(text, 1, colon - 1)) ELSE <<>>
             rest   == IF has THEN Slice(text, colon + 1, Len(text)) ELSE text
             ends   == {k \in 3..Len(rest) : rest[k] \in {"/", "?", "#"}}
             stop   == IF ends = {} THEN Len(rest) + 1
                       ELSE CHOOSE k \in ends : \A l \in ends : k <= l
             netloc == IF OccursAt(rest, <<"/", "/">>, 1) THEN Slice(rest, 3, stop - 1)
                       ELSE <<>>
         IN  IF Contains(netloc, <<"[">>) # Contains(netloc, <<"]">>)
             THEN [kind |-> "raise", exc |-> "ValueError"]
             ELSE [kind |-> "ok", scheme |-> scheme]

HTTPS == <<"h", "t", "t", "p", "s">>

HTTP == <<"h", "t", "t", "p">>

\* `url_scheme != 'https' and url_scheme != 'http'` is false.
SchemeAccepted(scheme) == scheme = HTTPS \/ scheme = HTTP

\* `not token`
TokenMissing(token) == token.type = "None" \/ token.text = <<>>

\* The default of the timeout parameter.
DEFAULT_TIMEOUT == 10000

\* get_influxdb_client(url, token, org, timeout, verify_ssl): what it returns
\* (the arguments InfluxDBClient is constructed with) or raises, and what it
\* logs. An exception in the try block is logged and raised again.
get_influxdb_client(url, token, org, timeout, verify_ssl) ==
    LET parsed == urlparse(url)
    IN  IF parsed.kind = "raise"
        THEN [kind |-> "raise", exc |-> parsed.exc, logged |-> <<"Error parsing URL">>]
        ELSE IF ~SchemeAccepted(parsed.scheme)
        THEN [kind |-> "raise", exc |-> "ValueError", logged |-> <<"Error parsing URL">>]
        ELSE IF TokenMissing(token)
        THEN [kind |-> "raise", exc |-> "ValueError", logged |-> <<>>]
        ELSE [kind |-> "client", logged |-> <<>>,
              url |-> url, token |-> token,
              org |-> IF org.type = "None" THEN Str(<<>>) ELSE org,
              timeout |-> timeout, verify_ssl |-> verify_ssl]

\* The URLs, tokens and organisations of the calls.
Urls ==
    { None, Str(<<>>),
      Str(<<"h", "t", "t", "p", "s", ":", "/", "/", "h", ":", "8", "0", "8", "6">>),
      Str(<<"H", "T", "T", "P", "S", ":", "/", "/", "h", ":", "8", "0", "8", "6">>),
      Str(<<"h", "t", "t", "p", ":", "/", "/", "h", ":", "8", "0", "8", "6">>),
      Str(<<"f", "t", "p", ":", "/", "/", "h">>),
      Str(<<"h", ":", "8", "0", "8", "6">>),
      Str(<<"/", "/", "h">>),
      Str(<<"h", "t", "t", "p", "s", "/", "/", "h">>),
      Str(<<"h", "t", "t", "p", "s", "s", ":", "/", "/", "h">>),
      Str(<<"h", "t", "t", "p", "s", ":", "/", "/", "[", ":", ":", "1">>),
      Str(<<"h", "t", "t", "p", "s", ":", "/", "/", "h", "/", "p", "?", "q", "=", "[">>) }

Tokens == { None, Str(<<>>), Str(<<"t", "o", "k">>) }

Orgs == { None, Str(<<"o", "r", "g">>) }

Timeouts == { IntObject(DEFAULT_TIMEOUT), IntObject(0) }

Calls ==
    [url : Urls, token : Tokens, org : Orgs, timeout : Timeouts, verify_ssl : BOOLEAN]

InitClient ==
    /\ call \in Calls
    /\ outcome = [kind |-> "unset"]
    /\ logged = <<>>
    /\ cpc = "called"
    /\ HandlerIdle
    /\ DecodeIdle
    /\ BuildIdle
    /\ McpIdle

Called == get_influxdb_client(call.url, call.token, call.org, call.timeout, call.verify_ssl)

\* Lines 90-97: urlparse raises, or the scheme is refused; logged and raised.
RejectUrl ==
    /\ cpc = "called"
    /\ Called.kind = "raise"
    /\ Called.logged # <<>>
    /\ outcome' = [kind |-> "raise", exc |-> Called.exc]
    /\ logged' = Called.logged
    /\ cpc' = "done"
    /\ UNCHANGED <<call, handlerVars, decodeVars, buildVars, mcpVars>>

\* Lines 99-100: `if not token: raise ValueError(...)`.
RejectToken ==
    /\ cpc = "called"
    /\ Called.kind = "raise"
    /\ Called.logged = <<>>
    /\ outcome' = [kind |-> "raise", exc |-> Called.exc]
    /\ cpc' = "done"
    /\ UNCHANGED <<call, logged, handlerVars, decodeVars, buildVars, mcpVars>>

\* Lines 103-108: the client is constructed and returned.
ReturnClient ==
    /\ cpc = "called"
    /\ Called.kind = "client"
    /\ outcome' = [kind |-> "client", url |-> Called.url, token |-> Called.token,
                   org |-> Called.org, timeout |-> Called.timeout,
                   verify_ssl |-> Called.verify_ssl]
    /\ cpc' = "done"
    /\ UNCHANGED <<call, logged, handlerVars, decodeVars, buildVars, mcpVars>>

NextClient ==
    \/ RejectUrl
    \/ RejectToken
    \/ ReturnClient

SpecClient == InitClient /\ [][NextClient]_vars

(***************************************************************************)
(* src/mcp/cmcd_client.py: CMCDClient.process_query                        *)
(***************************************************************************)
\* d.get(key, default) for a dict.
DictGetOr(d, key, default) == IF DictHas(d, key) THEN DictGet(d, key) ELSE default

\* One property of a tool's input schema, as convert_tool_to_json_spec keeps it.
PropertySpec(prop_details) ==
    << <<"type", DictGetOr(prop_details, "type", "string")>>,
       <<"description", DictGetOr(prop_details, "description", "")>> >>

\* convert_tool_to_json_spec(tool) for a Tool object of the MCP session.
convert_tool_to_json_spec(tool) ==
    LET props == DictGetOr(tool.inputSchema, "properties", <<>>)
    IN  [name        |-> tool.name,
         description |-> tool.description,
         inputSchema |->
            [json |-> [type       |-> "object",
                       properties |-> [k \in 1..Len(props) |->
                                          <<props[k][1], PropertySpec(props[k][2])>>],
                       required   |-> DictGetOr(tool.inputSchema, "required", <<>>)]]]

\* The toolConfig of process_query.
AvailableTools(tools) ==
    [tools |-> [k \in 1..Len(tools) |-> [toolSpec |-> convert_tool_to_json_spec(tools[k])]]]

\* The default system prompt of process_query.
DEFAULT_PROMPT ==
    "You are a CMCD streaming analytics assistant. Use the available tools to analyze streaming media performance data."

\* The system prompt: the first message of the server's first prompt when the
\* server lists one and get_prompt returns messages; the default when the
\* listing is empty, when the prompt has no messages, and when either call
\* raises.
ServerPrompt(server) ==
    IF server.prompts = "given" THEN server.prompt_text ELSE DEFAULT_PROMPT

\* item.text if hasattr(item, 'text') else str(item)
ItemText(item) == IF "text" \in item.attrs THEN item.text ELSE item.repr

\* A Python list as an object: no attribute text, no attribute isError.
ListObject(items) ==
    [class |-> "list", attrs |-> {}, items |-> items, text |-> <<>>, repr |-> <<>>,
     isError |-> FALSE]

\* getattr(obj, 'isError', False)
GetIsError(obj) == IF "isError" \in obj.attrs THEN obj.isError ELSE FALSE

\* The text convert_content_to_json extracts from its first argument.
TextContent(content_obj) ==
    IF content_obj.class = "list"
    THEN Join([k \in 1..Len(content_obj.items) |-> ItemText(content_obj.items[k])], <<LF>>)
    ELSE IF "text" \in content_obj.attrs THEN content_obj.text
    ELSE content_obj.repr

\* The status is read from the argument itself.
StatusOf(content_obj) == IF GetIsError(content_obj) THEN "error" ELSE "success"

convert_content_to_json(content_obj, tool_use_id) ==
    [role    |-> "user",
     content |-> << << <<"toolResult",
                         [toolUseId |-> tool_use_id,
                          content   |-> << [text |-> TextContent(content_obj)] >>,
                          status    |-> StatusOf(content_obj)]>> >> >>]

\* any('toolUse' in content for content in output_message['content']), with the
\* test at the first block only.
FirstBlockIsToolUse(content) == Len(content) > 0 /\ DictHas(content[1], "toolUse")

\* any('toolUse' in content for content in output_message['content'])
AnyToolUse(content) == \E k \in 1..Len(content) : DictHas(content[k], "toolUse")

\* The first message of the conversation.
QueryMessage(query) == [role |-> "user", content |-> << << <<"text", query>> >> >>]

\* Model responses hold every sequence of at most MaxBlocks content blocks and
\* the longer ones listed below, and process_query is followed for at most
\* MaxTurns model calls.
MaxBlocks == 1

MaxTurns == 2

\* The query typed by the user.
QUERY == <<"q">>

\* A content block of the Converse API is a union: it has one member, a text, a
\* toolUse or another one (here reasoningContent).
BlockKinds == {"text", "toolUse", "reasoningContent"}

\* The identifiers of tool uses differ from block to block.
ToolUseId(n, k) == 10 * n + k

\* Block k of the n-th model response, of the given kind.
BlockOf(kind, n, k) ==
    IF kind = "text" THEN << <<"text", <<"t", DigitChar(n), DigitChar(k)>> >> >>
    ELSE IF kind = "toolUse"
    THEN << <<"toolUse", [toolUseId |-> ToolUseId(n, k), name |-> "get_cmcd_data",
                          input |-> << <<"url", "https://h:8086">> >>]>> >>
    ELSE << <<"reasoningContent", <<>> >> >>

\* Responses of two and three blocks: a text before and after a tool use, two
\* tool uses, a tool use after a block of another kind.
LongResponses ==
    { <<"text", "toolUse">>, <<"toolUse", "text">>, <<"toolUse", "toolUse">>,
      <<"reasoningContent", "toolUse">>, <<"text", "text">>,
      <<"text", "toolUse", "toolUse">> }

\* The contents the n-th model response may have.
Responses(n) ==
    { [k \in 1..Len(kinds) |-> BlockOf(kinds[k], n, k)]
        : kinds \in UNION { [1..len -> BlockKinds] : len \in 0..MaxBlocks }
                      \cup LongResponses }

\* The content items of a tool result: a TextContent, and an ImageContent, which
\* has no text and is rendered by str().
TextItem(text) == [attrs |-> {"text"}, text |-> text, repr |-> <<"T">>]

ImageItem == [attrs |-> {"data"}, text |-> <<>>, repr |-> <<"I", "m", "g">>]

\* What session.call_tool returns: a result, or a result flagged as an error.
ToolResults ==
    { [kind |-> "result", content |-> <<TextItem(<<"o", "k">>)>>, isError |-> FALSE],
      [kind |-> "result",
       content |-> <<TextItem(<<"b", "o", "o", "m">>), ImageItem>>, isError |-> TRUE] }

\* The tool of the server, as list_tools returns it.
CmcdTool ==
    [name        |-> "get_cmcd_data",
     description |-> "Query CMCD data",
     inputSchema |->
        << <<"properties",
             << <<"url", << <<"type", "string">>, <<"description", "InfluxDB URL">> >> >>,
                <<"verify_ssl", << <<"type", "boolean">> >> >>,
                <<"org", <<>> >> >> >>,
           <<"required", <<"url">> >> >>]

\* The MCP sessions: the server lists a prompt and returns its messages; it
\* lists no prompt; list_prompts raises and the server has no tool.
Sessions ==
    { [tools |-> <<CmcdTool>>, prompts |-> "given", prompt_text |-> "Analyse CMCD data"],
      [tools |-> <<CmcdTool>>, prompts |-> "empty", prompt_text |-> ""],
      [tools |-> <<>>, prompts |-> "raises", prompt_text |-> ""] }

(***************************************************************************)
(* process_query, step by step: the set-up, then each model call and each  *)
(* content block of its response.                                          *)
(***************************************************************************)
InitQuery ==
    /\ session \in Sessions
    /\ messages = <<>>
    /\ final_text = <<>>
    /\ output_message = [role |-> "assistant", content |-> <<>>]
    /\ pos = 1
    /\ toolCalls = <<>>
    /\ requests = <<>>
    /\ system_prompts = <<>>
    /\ available_tools = [tools |-> <<>>]
    /\ answer = <<>>
    /\ qpc = "start"
    /\ HandlerIdle
    /\ DecodeIdle
    /\ BuildIdle
    /\ ClientIdle
    /\ ServerIdle
    /\ CheckIdle

\* Lines 94-125: the tool specifications, the first message, the system prompt.
Prepare ==
    /\ qpc = "start"
    /\ available_tools' = AvailableTools(session.tools)
    /\ messages' = <<QueryMessage(QUERY)>>
    /\ system_prompts' = << [text |-> ServerPrompt(session)] >>
    /\ final_text' = <<>>
    /\ qpc' = "converse"
    /\ UNCHANGED <<session, output_message, pos, toolCalls, requests, answer,
                   handlerVars, decodeVars, buildVars, clientVars, serverVars,
                   checkVars>>

\* bedrock.converse returns; the output message joins the conversation.
Converse ==
    /\ qpc = "converse"
    /\ Len(requests) < MaxTurns
    /\ \E content \in Responses(Len(requests) + 1) :
           /\ output_message' = [role |-> "assistant", content |-> content]
           /\ messages' = Append(messages, [role |-> "assistant", content |-> content])
    /\ requests' = Append(requests, Len(messages))
    /\ pos' = 1
    /\ qpc' = "content"
    /\ UNCHANGED <<session, final_text, toolCalls, system_prompts, available_tools,
                   answer, handlerVars, decodeVars, buildVars, clientVars, serverVars,
                   checkVars>>

\* bedrock.converse raises: process_query ends with the exception.
ConverseRaises ==
    /\ qpc = "converse"
    /\ Len(requests) < MaxTurns
    /\ requests' = Append(requests, Len(messages))
    /\ qpc' = "raised"
    /\ UNCHANGED <<session, messages, final_text, output_message, pos, toolCalls,
                   system_prompts, available_tools, answer,
                   handlerVars, decodeVars, buildVars, clientVars, serverVars,
                   checkVars>>

\* if 'text' in content
TakeText ==
    /\ qpc = "content"
    /\ pos <= Len(output_message.content)
    /\ DictHas(output_message.content[pos], "text")
    /\ final_text' = Append(final_text, DictGet(output_message.content[pos], "text"))
    /\ pos' = pos + 1
    /\ UNCHANGED <<session, messages, output_message, toolCalls, requests,
                   system_prompts, available_tools, answer, qpc,
                   handlerVars, decodeVars, buildVars, clientVars, serverVars,
                   checkVars>>

\* elif 'toolUse' in content: the tool is called and its result's content is
\* converted and appended.
CallTool ==
    /\ qpc = "content"
    /\ pos <= Len(output_message.content)
    /\ ~DictHas(output_message.content[pos], "text")
    /\ DictHas(output_message.content[pos], "toolUse")
    /\ LET toolUse == DictGet(output_message.content[pos], "toolUse")
       IN  \E called \in ToolResults :
               /\ toolCalls' = Append(toolCalls, [name |-> toolUse.name,
                                                  args |-> toolUse.input,
                                                  toolUseId |-> toolUse.toolUseId,
                                                  result |-> called])
               /\ messages' = Append(messages,
                                     convert_content_to_json(ListObject(called.content),
                                                             toolUse.toolUseId))
    /\ pos' = pos + 1
    /\ UNCHANGED <<session, final_text, output_message, requests, system_prompts,
                   available_tools, answer, qpc,
                   handlerVars, decodeVars, buildVars, clientVars, serverVars,
                   checkVars>>

\* session.call_tool raises: process_query ends with the exception.
CallToolRaises ==
    /\ qpc = "content"
    /\ pos <= Len(output_message.content)
    /\ ~DictHas(output_message.content[pos], "text")
    /\ DictHas(output_message.content[pos], "toolUse")
    /\ LET toolUse == DictGet(output_message.content[pos], "toolUse")
       IN  toolCalls' = Append(toolCalls, [name |-> toolUse.name,
                                           args |-> toolUse.input,
                                           toolUseId |-> toolUse.toolUseId,
                                           result |-> [kind |-> "raise"]])
    /\ qpc' = "raised"
    /\ UNCHANGED <<session, messages, final_text, output_message, pos, requests,
                   system_prompts, available_tools, answer,
                   handlerVars, decodeVars, buildVars, clientVars, serverVars,
                   checkVars>>

\* A block with neither key is passed over.
SkipBlock ==
    /\ qpc = "content"
    /\ pos <= Len(output_message.content)
    /\ ~DictHas(output_message.content[pos], "text")
    /\ ~DictHas(output_message.content[pos], "toolUse")
    /\ pos' = pos + 1
    /\ UNCHANGED <<session, messages, final_text, output_message, toolCalls, requests,
                   system_prompts, available_tools, answer, qpc,
                   handlerVars, decodeVars, buildVars, clientVars, serverVars,
                   checkVars>>

\* After the last block: break and return when no block has a toolUse.
ReturnAnswer ==
    /\ qpc = "content"
    /\ pos > Len(output_message.content)
    /\ ~AnyToolUse(output_message.content)
    /\ answer' = Join(final_text, <<LF>>)
    /\ qpc' = "returned"
    /\ UNCHANGED <<session, messages, final_text, output_message, pos, toolCalls,
                   requests, system_prompts, available_tools,
                   handlerVars, decodeVars, buildVars, clientVars, serverVars,
                   checkVars>>

\* After the last block: the loop goes round when a block has a toolUse.
LoopAgain ==
    /\ qpc = "content"
    /\ pos > Len(output_message.content)
    /\ AnyToolUse(output_message.content)
    /\ qpc' = "converse"
    /\ UNCHANGED <<session, messages, final_text, output_message, pos, toolCalls,
                   requests, system_prompts, available_tools, answer,
                   handlerVars, decodeVars, buildVars, clientVars, serverVars,
                   checkVars>>

NextQuery ==
    \/ Prepare
    \/ Converse
    \/ ConverseRaises
    \/ TakeText
    \/ CallTool
    \/ CallToolRaises
    \/ SkipBlock
    \/ ReturnAnswer
    \/ LoopAgain

SpecQuery == InitQuery /\ [][NextQuery]_vars

(***************************************************************************)
(* src/mcp/cmcd_server.py: get_cmcd_data, and src/mcp/influxdb_server.py:  *)
(* influxdb_query. Both create a client, run the query, turn the records   *)
(* into rows, close the client and return; an exception anywhere in the    *)
(* try block is caught and returned as an error.                           *)
(***************************************************************************)
\* The default of the parameter verify_ssl of get_influxdb_client.
DEFAULT_VERIFY_SSL == FALSE

\* client = get_influxdb_client(url, token, org, verify_ssl): the arguments are
\* positional, so the fourth one is the parameter timeout and the parameter
\* verify_ssl takes its default.
ClientOf(args) ==
    get_influxdb_client(args.url, args.token, args.org, BoolObject(args.verify_ssl),
                        DEFAULT_VERIFY_SSL)

\* str(e) for the exceptions get_influxdb_client raises.
ClientErrorText(args) ==
    LET parsed == urlparse(args.url)
    IN  IF parsed.kind = "raise" THEN "Invalid IPv6 URL"
        ELSE IF ~SchemeAccepted(parsed.scheme) THEN "URL must use HTTP(S) protocol"
        ELSE "Token must be provided"

\* A record of a query result: every accessor works; get_measurement, get_field,
\* get_value and get_time raise but record.values is a dict; record.values
\* itself raises.
RecordKinds == {"plain", "partial", "broken"}

\* record.values of the records that have them.
RawValues == << <<"_value", "4200">>, <<"cmcd_type", "request">> >>

\* The row get_cmcd_data builds from a record: each accessor has its own try
\* with a fallback, record.values is read outside them.
CmcdRow(record) ==
    IF record = "broken" THEN [kind |-> "raise", text |-> "no values"]
    ELSE [kind |-> "row",
          row  |-> [measurement |-> IF record = "plain" THEN "cloudfront_logs" ELSE "None",
                    field       |-> IF record = "plain" THEN "cmcd_br" ELSE "None",
                    value       |-> DictGet(RawValues, "_value"),
                    time        |-> IF record = "plain" THEN "2024-01-01T00:00:00" ELSE "None",
                    tags        |-> DictGetOr(RawValues, "tags", <<>>),
                    raw_values  |-> RawValues]]

\* The row influxdb_query builds from a record: one try around the whole row,
\* with a fallback row made of record.values.
QueryRow(record) ==
    IF record = "broken" THEN [kind |-> "raise", text |-> "no values"]
    ELSE IF record = "partial"
    THEN [kind |-> "row",
          row  |-> [raw_values |-> RawValues, value |-> DictGet(RawValues, "_value"),
                    time |-> "None"]]
    ELSE [kind |-> "row",
          row  |-> [measurement |-> "cloudfront_logs",
                    field       |-> "cmcd_br",
                    value       |-> "4200",
                    time        |-> "2024-01-01T00:00:00",
                    tags        |-> DictGetOr(RawValues, "tags", <<>>),
                    raw_values  |-> RawValues]]

RowOf(fn, record) == IF fn = "get_cmcd_data" THEN CmcdRow(record) ELSE QueryRow(record)

\* Query results hold at most MaxRows records.
MaxRows == 2

RecordLists == UNION { [1..n -> RecordKinds] : n \in 0..MaxRows }

\* The calls of the two functions.
ToolCalls ==
    [fn : {"get_cmcd_data", "influxdb_query"},
     query : {"from(bucket)"},
     url : { Str(<<"h", "t", "t", "p", "s", ":", "/", "/", "h", ":", "8", "0", "8", "6">>),
             Str(<<"h", "t", "t", "p", ":", "/", "/", "h", ":", "8", "0", "8", "6">>),
             Str(<<"f", "t", "p", ":", "/", "/", "h">>),
             Str(<<"h", "t", "t", "p", "s", ":", "/", "/", "[", ":", ":", "1">>),
             None },
     token : { Str(<<"t", "o", "k">>), Str(<<>>), None },
     org : Orgs,
     verify_ssl : BOOLEAN]

NoClient == [kind |-> "none"]

InitServer ==
    /\ tool_call \in ToolCalls
    /\ client = NoClient
    /\ tables = <<>>
    /\ rows = <<>>
    /\ error = ""
    /\ ret = [status |-> "unset"]
    /\ spc = "called"
    /\ HandlerIdle
    /\ DecodeIdle
    /\ BuildIdle
    /\ ClientIdle
    /\ QueryIdle
    /\ CheckIdle

\* get_influxdb_client returns the client.
CreateClient ==
    /\ spc = "called"
    /\ ClientOf(tool_call).kind = "client"
    /\ client' = [kind |-> "client", closed |-> FALSE,
                  url |-> ClientOf(tool_call).url, token |-> ClientOf(tool_call).token,
                  org |-> ClientOf(tool_call).org, timeout |-> ClientOf(tool_call).timeout,
                  verify_ssl |-> ClientOf(tool_call).verify_ssl]
    /\ spc' = "client"
    /\ UNCHANGED <<tool_call, tables, rows, error, ret,
                   handlerVars, decodeVars, buildVars, clientVars, queryVars, checkVars>>

\* get_influxdb_client raises: no client exists.
CreateClientRaises ==
    /\ spc = "called"
    /\ ClientOf(tool_call).kind = "raise"
    /\ error' = ClientErrorText(tool_call)
    /\ spc' = "except"
    /\ UNCHANGED <<tool_call, client, tables, rows, ret,
                   handlerVars, decodeVars, buildVars, clientVars, queryVars, checkVars>>

\* query_api.query returns the tables.
RunQuery ==
    /\ spc = "client"
    /\ tables' \in RecordLists
    /\ rows' = <<>>
    /\ spc' = "rows"
    /\ UNCHANGED <<tool_call, client, error, ret,
                   handlerVars, decodeVars, buildVars, clientVars, queryVars, checkVars>>

\* query_api.query raises.
RunQueryRaises ==
    /\ spc = "client"
    /\ error' = "query failed"
    /\ spc' = "except"
    /\ UNCHANGED <<tool_call, client, tables, rows, ret,
                   handlerVars, decodeVars, buildVars, clientVars, queryVars, checkVars>>

\* One record becomes a row of the result.
ProcessRecord ==
    /\ spc = "rows"
    /\ Len(rows) < Len(tables)
    /\ RowOf(tool_call.fn, tables[Len(rows) + 1]).kind = "row"
    /\ rows' = Append(rows, RowOf(tool_call.fn, tables[Len(rows) + 1]).row)
    /\ UNCHANGED <<tool_call, client, tables, error, ret, spc,
                   handlerVars, decodeVars, buildVars, clientVars, queryVars, checkVars>>

\* Processing a record raises outside the inner try blocks.
ProcessRecordRaises ==
    /\ spc = "rows"
    /\ Len(rows) < Len(tables)
    /\ RowOf(tool_call.fn, tables[Len(rows) + 1]).kind = "raise"
    /\ error' = RowOf(tool_call.fn, tables[Len(rows) + 1]).text
    /\ spc' = "except"
    /\ UNCHANGED <<tool_call, client, tables, rows, ret,
                   handlerVars, decodeVars, buildVars, clientVars, queryVars, checkVars>>

\* After the last record: client.close() and the success result.
CloseAndReturn ==
    /\ spc = "rows"
    /\ Len(rows) = Len(tables)
    /\ client' = [client EXCEPT !.closed = TRUE]
    /\ ret' = [status |-> "success", result |-> rows, format |-> "json"]
    /\ spc' = "returned"
    /\ UNCHANGED <<tool_call, tables, rows, error,
                   handlerVars, decodeVars, buildVars, clientVars, queryVars, checkVars>>

\* except Exception as e: the error is logged and returned.
ReturnError ==
    /\ spc = "except"
    /\ ret' = [status |-> "error", message |-> error]
    /\ spc' = "returned"
    /\ UNCHANGED <<tool_call, client, tables, rows, error,
                   handlerVars, decodeVars, buildVars, clientVars, queryVars, checkVars>>

NextServer ==
    \/ CreateClient
    \/ CreateClientRaises
    \/ RunQuery
    \/ RunQueryRaises
    \/ ProcessRecord
    \/ ProcessRecordRaises
    \/ CloseAndReturn
    \/ ReturnError

SpecServer == InitServer /\ [][NextServer]_vars

(***************************************************************************)
(* src/cmcd/check_influxdb.py: main and test_connection.                   *)
(***************************************************************************)
\* The port main probes on localhost.
INFLUXDB_PORT == 8086

\* The default of INFLUXDB_TIMEOUT.
INFLUXDB_TIMEOUT == 30000

\* The steps of test_connection that can raise, in order; "none" when none does.
ProbeSteps == <<"client", "health", "buckets", "query">>

FailurePoints == {"none"} \cup {ProbeSteps[k] : k \in 1..Len(ProbeSteps)}

\* The step at which test_connection can fail for a URL: InfluxDBClient cannot
\* be constructed without a URL, so with None it fails at the first step.
FailurePointsFor(url) == IF url.type = "None" THEN {"client"} ELSE FailurePoints

\* test_connection(url, token, org, timeout, verify_ssl) when the step failed_at
\* raises: the calls made on the client, whether the client was closed, and the
\* value returned. The except branch returns False without closing.
test_connection(url, timeout, verify_ssl, failed_at) ==
    [url        |-> url,
     timeout    |-> timeout,
     verify_ssl |-> verify_ssl,
     failed_at  |-> failed_at,
     closed     |-> failed_at = "none",
     ok         |-> failed_at = "none"]

\* INFLUXDB_URL.replace(old, new)
ReplaceScheme(url, old, new) == Str(replace(url.text, old, new))

HTTP_PREFIX == <<"h", "t", "t", "p", ":", "/", "/">>

HTTPS_PREFIX == <<"h", "t", "t", "p", "s", ":", "/", "/">>

\* The environment: INFLUXDB_URL set to an http or https URL or unset, and
\* VERIFY_SSL.
Environments ==
    [url : { Str(HTTP_PREFIX \o <<"l", "o", "c", "a", "l", "h", "o", "s", "t", ":", "8", "0", "8", "6">>),
             Str(HTTPS_PREFIX \o <<"l", "o", "c", "a", "l", "h", "o", "s", "t", ":", "8", "0", "8", "6">>),
             None },
     verify_ssl : BOOLEAN,
     port : {INFLUXDB_PORT},
     port_open : BOOLEAN]

InitCheck ==
    /\ env \in Environments
    /\ attempts = <<>>
    /\ exit_code = [kind |-> "unset"]
    /\ kpc = "start"
    /\ HandlerIdle
    /\ DecodeIdle
    /\ BuildIdle
    /\ ClientIdle
    /\ QueryIdle
    /\ ServerIdle

\* check_port_open('localhost', 8086) is True.
PortOpen ==
    /\ kpc = "start"
    /\ env.port_open
    /\ kpc' = "current"
    /\ UNCHANGED <<env, attempts, exit_code,
                   handlerVars, decodeVars, buildVars, clientVars, queryVars, serverVars>>

\* check_port_open is False: return 1.
PortClosed ==
    /\ kpc = "start"
    /\ ~env.port_open
    /\ exit_code' = [kind |-> "return", value |-> 1]
    /\ kpc' = "returned"
    /\ UNCHANGED <<env, attempts,
                   handlerVars, decodeVars, buildVars, clientVars, queryVars, serverVars>>

\* An attempt was made with the given URL and verify_ssl; main returns 0 when
\* it succeeded and goes on to the position `next` when it failed.
Attempt(url, verify_ssl, next) ==
    \E failed_at \in FailurePointsFor(url) :
        LET tested == test_connection(url, INFLUXDB_TIMEOUT, verify_ssl, failed_at)
        IN  /\ attempts' = Append(attempts, tested)
            /\ IF tested.ok
               THEN /\ exit_code' = [kind |-> "return", value |-> 0]
                    /\ kpc' = "returned"
               ELSE /\ exit_code' = IF next = "returned"
                                    THEN [kind |-> "return", value |-> 1]
                                    ELSE exit_code
                    /\ kpc' = next

\* Lines 110-112: the current configuration.
TryCurrent ==
    /\ kpc = "current"
    /\ Attempt(env.url, env.verify_ssl, "https")
    /\ UNCHANGED <<env, handlerVars, decodeVars, buildVars, clientVars, queryVars, serverVars>>

\* Lines 116-122: HTTPS, verify_ssl False.
TryHttps ==
    /\ kpc = "https"
    /\ env.url.type = "str"
    /\ Attempt(ReplaceScheme(env.url, HTTP_PREFIX, HTTPS_PREFIX), FALSE, "http")
    /\ UNCHANGED <<env, handlerVars, decodeVars, buildVars, clientVars, queryVars, serverVars>>

\* Line 116 when INFLUXDB_URL is None: None has no replace, AttributeError
\* leaves main.
ReplaceRaises ==
    /\ kpc = "https"
    /\ env.url.type = "None"
    /\ exit_code' = [kind |-> "raise", exc |-> "AttributeError"]
    /\ kpc' = "raised"
    /\ UNCHANGED <<env, attempts,
                   handlerVars, decodeVars, buildVars, clientVars, queryVars, serverVars>>

\* Lines 126-140: HTTP, verify_ssl False; return 1 when it fails too.
TryHttp ==
    /\ kpc = "http"
    /\ Attempt(ReplaceScheme(env.url, HTTPS_PREFIX, HTTP_PREFIX), FALSE, "returned")
    /\ UNCHANGED <<env, handlerVars, decodeVars, buildVars, clientVars, queryVars, serverVars>>

NextCheck ==
    \/ PortOpen
    \/ PortClosed
    \/ TryCurrent
    \/ TryHttps
    \/ ReplaceRaises
    \/ TryHttp

SpecCheck == InitCheck /\ [][NextCheck]_vars

(***************************************************************************)
(* Claims.                                                                 *)
(***************************************************************************)
\* line.split('\t'): the tab-separated fields of a line as it stands.
RawFields(line) == split(line, <<TAB>>)

\* Non-empty and every character one of 0..9.
AllAsciiDigits(s) == Len(s) > 0 /\ \A k \in 1..Len(s) : s[k] \in AsciiDigits

\* C1: a line with fewer than 10 tab-separated fields makes parse_cloudfront_log
\* return None, never raise, and adds no point to lambda_handler's records.
C1_ShortLineYieldsNothing ==
    \A k \in 1..Len(event) :
        Len(RawFields(event[k])) < 10 =>
            /\ parse_cloudfront_log(event[k]) = [kind |-> "None"]
            /\ ~(pc = "raised" /\ i = k)
            /\ (k <= Len(added) => added[k] = <<>>)

\* A 9-field line was handled after a record that added points, and the handler
\* returned.
C1_Witness ==
    /\ pc = "done"
    /\ Len(event) = 2
    /\ Len(RawFields(event[2])) = 9
    /\ added[1] # <<>>
    /\ added[2] = <<>>

\* C2 (as claimed): when the line is decoded (10 or more fields, a capture time
\* float() reads), the time-taken field never makes parse_cloudfront_log raise, and
\* the time_taken point's MeasureValue is the field itself when it is all decimal
\* digits and "0" otherwise.
C2_TimeTakenIsTheField ==
    LET fields == FieldsOf(input.line)
    IN  (dpc # "start" /\ Len(fields) >= 10 /\ TimestampOf(fields[1]).kind = "ok") =>
            /\ log_data.kind = "ok"
            /\ dpc = "built" =>
                   /\ \E j \in 1..Len(points) : points[j].MeasureName = TIME_TAKEN
                   /\ \A j \in 1..Len(points) :
                          points[j].MeasureName = TIME_TAKEN =>
                              points[j].MeasureValue =
                                  IF AllAsciiDigits(fields[8]) THEN fields[8] ELSE <<"0">>

\* The positions of a block's header names: where its header lines start.
LineStarts(b) == {j \in 1..Len(b) : b[j] \in AllNameIds}

\* The segments of the header line that starts at position j.
SegsOfLine(b, j) ==
    LET later == {k \in LineStarts(b) : k > j}
        stop  == IF later = {} THEN Len(b) + 1
                 ELSE CHOOSE k \in later : \A l \in later : k <= l
    IN  SubSeq(b, j + 1, stop - 1)

\* The header name is CMCD-<Name>.
IsCmcdName(id) == OccursAt(ItemOf(id).name, <<"C", "M", "C", "D", "-">>, 1)

\* <Name> in lower case, for a header name CMCD-<Name>.
CategoryOf(id) == lower(SubSeq(ItemOf(id).name, 6, Len(ItemOf(id).name)))

\* The text neither begins nor ends with a double quote.
NoOuterQuote(s) == s = <<>> \/ (s[1] # "\"" /\ s[Len(s)] # "\"")

RECURSIVE AttributesOf(_, _)
\* The mapping ki -> vi of the k=v segments, as the segments were described (the
\* key and the value without the padding and the quotes they are written with).
AttributesOf(acc, segs) ==
    IF segs = <<>> THEN acc
    ELSE AttributesOf(IF ItemOf(Head(segs)).eq
                      THEN DictSet(acc, ItemOf(Head(segs)).k, ItemOf(Head(segs)).v)
                      ELSE acc,
                      Tail(segs))

\* C3: a header line CMCD-<Name>: k1=v1,k2=v2,... yields the category <name> (lower
\* case, CMCD- removed) whose attributes map each ki to vi, trimmed and without the
\* wrapping double quotes. The line is the last of its name in the block (an earlier
\* one is overwritten), and no value has double quotes of its own next to the
\* wrapping ones (how many of those are removed is C17's question).
C3_HeaderLineYieldsCategory ==
    (dpc # "start" /\ log_data.kind = "ok") =>
        \A j \in LineStarts(input.block) :
            LET segs == SegsOfLine(input.block, j)
            IN  ( /\ IsCmcdName(input.block[j])
                  /\ \A k \in 1..Len(segs) : ItemOf(segs[k]).eq /\ NoOuterQuote(ItemOf(segs[k]).v)
                  /\ \A l \in LineStarts(input.block) :
                         l > j => input.block[l] # input.block[j] ) =>
                    /\ DictHas(log_data.rec.cmcd_data, CategoryOf(input.block[j]))
                    /\ DictGet(log_data.rec.cmcd_data, CategoryOf(input.block[j]))
                         = AttributesOf(<<>>, segs)

\* The line `CMCD-Request: br=4200,cid="abc123"` was decoded to the category
\* request with {br: 4200, cid: abc123}.
C3_Witness ==
    /\ dpc = "parsed"
    /\ input.block = <<"Request", "br", "cid">>
    /\ log_data.kind = "ok"
    /\ log_data.rec.cmcd_data =
         << << <<"r", "e", "q", "u", "e", "s", "t">>,
               << << <<"b", "r">>, <<"4", "2", "0", "0">> >>,
                  << <<"c", "i", "d">>, <<"a", "b", "c", "1", "2", "3">> >> >> >> >>

\* The dimensions the claims give a CMCD point: the record's client_ip,
\* edge_location and status, then cmcd_type.
ClaimedDimensions(rec, category) ==
    << [Name |-> "client_ip", Value |-> rec.client_ip],
       [Name |-> "edge_location", Value |-> rec.edge_location],
       [Name |-> "status", Value |-> rec.status],
       [Name |-> "cmcd_type", Value |-> category] >>

\* Some point is the CMCD point of (category, key) with the given value.
HasCmcdPoint(rec, category, key, value) ==
    \E p \in 1..Len(points) :
        /\ points[p].MeasureName = <<"c", "m", "c", "d", "_">> \o key
        /\ points[p].MeasureValue = value
        /\ points[p].Dimensions = ClaimedDimensions(rec, category)

\* C4: every (category, key, value) of the record's CMCD data whose value is all
\* decimal digits has a point named cmcd_<key>, with the value unchanged and the
\* dimensions client_ip, edge_location, status, cmcd_type = category, in that order.
C4_DigitAttributeYieldsPoint ==
    dpc = "built" =>
        LET data == log_data.rec.cmcd_data
        IN  \A c \in 1..Len(data) :
                \A a \in 1..Len(data[c][2]) :
                    AllAsciiDigits(data[c][2][a][2]) =>
                        HasCmcdPoint(log_data.rec, data[c][1], data[c][2][a][1],
                                     data[c][2][a][2])

\* br=4200 in category request of a record with client_ip 1.2.3.4, edge_location
\* IAD50 and status 200 gave the point cmcd_br = 4200 with the four dimensions.
C4_Witness ==
    /\ dpc = "built"
    /\ input.block = <<"Request", "br">>
    /\ Len(points) = 2
    /\ points[2].MeasureName = <<"c", "m", "c", "d", "_", "b", "r">>
    /\ points[2].MeasureValue = <<"4", "2", "0", "0">>
    /\ points[2].Dimensions =
         << [Name |-> "client_ip", Value |-> <<"1", ".", "2", ".", "3", ".", "4">>],
            [Name |-> "edge_location", Value |-> <<"I", "A", "D", "5", "0">>],
            [Name |-> "status", Value |-> <<"2", "0", "0">>],
            [Name |-> "cmcd_type", Value |-> <<"r", "e", "q", "u", "e", "s", "t">>] >>

\* C5 (as claimed): an attribute whose value is not all decimal digits has no
\* point, and the time_taken point and the points of the digit-valued attributes
\* of the same record are still there.
C5_NonDecimalAttributeYieldsNoPoint ==
    dpc = "built" =>
        LET data == log_data.rec.cmcd_data
        IN  /\ \A c \in 1..Len(data) :
                   \A a \in 1..Len(data[c][2]) :
                       ~AllAsciiDigits(data[c][2][a][2]) =>
                           ~\E p \in 1..Len(points) :
                               /\ points[p].MeasureName
                                    = <<"c", "m", "c", "d", "_">> \o data[c][2][a][1]
                               /\ points[p].Dimensions
                                    = ClaimedDimensions(log_data.rec, data[c][1])
            /\ points[1].MeasureName = TIME_TAKEN
            /\ C4_DigitAttributeYieldsPoint

RECURSIVE DigitPairs(_)
\* The number of (category, attribute) pairs whose value passes the code's digit
\* test, str.isdigit().
DigitPairs(data) ==
    IF data = <<>> THEN 0
    ELSE Cardinality({a \in 1..Len(Head(data)[2]) : isdigit(Head(data)[2][a][2])})
           + DigitPairs(Tail(data))

C7_RecordWithoutCmcdAddsTimeTaken ==
    \A k \in 1..Len(added) :
        LET f == RawFields(event[k])
        IN  ( /\ Len(f) >= 10
              /\ TimestampOf(f[1]).kind = "ok"
              /\ AllAsciiDigits(f[8])
              /\ ~Contains(unquote(f[7]), <<"C", "M", "C", "D", "-">>) ) =>
                /\ Len(added[k]) = 1
                /\ added[k][1].MeasureName = TIME_TAKEN

RECURSIVE Flatten(_)
\* The concatenation of a sequence of sequences.
Flatten(ss) == IF ss = <<>> THEN <<>> ELSE Head(ss) \o Flatten(Tail(ss))

\* C8: a record with fewer than 10 fields is skipped (it neither raises nor adds a
\* point); the points of the other records handled are all kept in records, each
\* record's points being those create_timestream_records returns for it; and when
\* the handler returns, they have been written in one write_records call (none when
\* there is no point).
C8_MalformedRecordIsSkipped ==
    /\ \A k \in 1..Len(event) :
           Len(RawFields(event[k])) < 10 =>
               /\ ~(pc = "raised" /\ i = k)
               /\ (k <= Len(added) => added[k] = <<>>)
    /\ \A k \in 1..Len(added) :
           Collects(parse_cloudfront_log(event[k])) =>
               added[k] = create_timestream_records(parse_cloudfront_log(event[k]).rec)
    /\ records = Flatten(added)
    /\ written = IF pc = "done" /\ records # <<>> THEN <<records>> ELSE <<>>

\* A short line came first, the next record added points, and the handler wrote
\* them in one call.
C8_Witness ==
    /\ pc = "done"
    /\ Len(event) = 2
    /\ Len(RawFields(event[1])) < 10
    /\ added[1] = <<>>
    /\ added[2] # <<>>
    /\ written = <<added[2]>>

\* C9 (as claimed, on the failure the claim names): in an event that has records
\* with points, a record of 10 or more fields whose capture time float() rejects
\* does not halt the batch: lambda_handler does not stop at it with an exception.
C9_DecodeFailureDoesNotHalt ==
    (\E k \in 1..Len(event) : Collects(parse_cloudfront_log(event[k]))) =>
        \A k \in 1..Len(event) :
            ( /\ Len(FieldsOf(event[k])) >= 10
              /\ TimestampOf(FieldsOf(event[k])[1]).kind = "raise" ) =>
                ~(pc = "raised" /\ i = k)

\* C10 (as claimed): a line whose tab split has 10 or more fields, empty ones
\* included, and whose capture time float() reads is not rejected, and the record's
\* client_ip, status, uri, time-taken and edge_location are fields 1, 2, 4, 7 and 8
\* of that split.
C10_TenRawFieldsAreDecoded ==
    LET raw == RawFields(input.line)
    IN  (dpc # "start" /\ Len(raw) >= 10 /\ TimestampOf(raw[1]).kind = "ok") =>
            /\ log_data.kind # "None"
            /\ log_data.kind = "ok" =>
                   /\ log_data.rec.client_ip = raw[2]
                   /\ log_data.rec.status = raw[3]
                   /\ log_data.rec.uri = raw[5]
                   /\ AllAsciiDigits(raw[8]) => log_data.rec.time_taken = IntValue(raw[8])
                   /\ log_data.rec.edge_location = raw[9]

RECURSIVE SerialisePairs(_)
\* k1=v1,k2=v2,... for an attribute mapping.
SerialisePairs(attrs) ==
    IF attrs = <<>> THEN <<>>
    ELSE Head(attrs)[1] \o <<"=">> \o Head(attrs)[2]
           \o (IF Len(attrs) > 1 THEN <<",">> ELSE <<>>) \o SerialisePairs(Tail(attrs))

RECURSIVE Serialise(_, _)
\* The re-encoding of a category-to-attributes mapping: one line
\* `name: k1=v1,k2=v2` per category, name being the prefix and the category key.
Serialise(cmcd_data, prefix) ==
    IF cmcd_data = <<>> THEN <<>>
    ELSE prefix \o Head(cmcd_data)[1] \o <<":", " ">> \o SerialisePairs(Head(cmcd_data)[2])
           \o (IF Len(cmcd_data) > 1 THEN <<LF>> ELSE <<>>) \o Serialise(Tail(cmcd_data), prefix)

\* C11 (as claimed): extract_cmcd_headers on the re-encoding `name: k1=v1,k2=v2` of
\* the mapping it produced yields the same mapping, name being the category key
\* or, the reading kinder to the code, the header name CMCD-<key>.
C11_ReencodingYieldsSameMapping ==
    (dpc # "start" /\ log_data.kind = "ok") =>
        \E prefix \in {<<>>, CMCD_PREFIX} :
            extract_cmcd_headers(Serialise(log_data.rec.cmcd_data, prefix))
                = log_data.rec.cmcd_data

\* The header line that starts at position j is the last of its name in the block.
IsLastOfName(b, j) == \A l \in LineStarts(b) : l > j => b[l] # b[j]

\* C12 (as claimed): a key written with no `=` in the value of a CMCD header line (a
\* valueless flag such as su) is a key of the category's attribute mapping.
C12_FlagIsPreserved ==
    (dpc # "start" /\ log_data.kind = "ok") =>
        \A j \in LineStarts(input.block) :
            (IsCmcdName(input.block[j]) /\ IsLastOfName(input.block, j)) =>
                LET segs == SegsOfLine(input.block, j)
                    data == log_data.rec.cmcd_data
                    cat  == CategoryOf(input.block[j])
                IN  \A k \in 1..Len(segs) :
                        ~ItemOf(segs[k]).eq =>
                            /\ DictHas(data, cat)
                            /\ DictHas(DictGet(data, cat), ItemOf(segs[k]).k)

\* The keys of the k=v segments of a header line.
KeysOfSegs(segs) == {ItemOf(segs[k]).k : k \in {n \in 1..Len(segs) : ItemOf(segs[n]).eq}}

\* C13: when a CMCD header name occurs on several lines of a block, its category
\* maps to what the last of those lines alone is parsed to; a key that only the
\* earlier lines carry is absent.
C13_LastLineOverwrites ==
    (dpc # "start" /\ log_data.kind = "ok") =>
        \A j \in LineStarts(input.block) :
            ( /\ IsCmcdName(input.block[j])
              /\ IsLastOfName(input.block, j)
              /\ \E l \in LineStarts(input.block) : l < j /\ input.block[l] = input.block[j] ) =>
                LET segs  == SegsOfLine(input.block, j)
                    data  == log_data.rec.cmcd_data
                    cat   == CategoryOf(input.block[j])
                    alone == extract_cmcd_headers(RenderBlock(<<input.block[j]>> \o segs))
                IN  /\ DictHas(data, cat)
                    /\ alone = << <<cat, DictGet(data, cat)>> >>
                    /\ \A l \in LineStarts(input.block) :
                           (l < j /\ input.block[l] = input.block[j]) =>
                               \A key \in KeysOfSegs(SegsOfLine(input.block, l))
                                            \ KeysOfSegs(segs) :
                                   ~DictHas(DictGet(data, cat), key)

\* `CMCD-Request: br=4200` then `CMCD-Request: cid="abc123"`: request has cid only.
C13_Witness ==
    /\ dpc = "parsed"
    /\ input.block = <<"Request", "br", "Request", "cid">>
    /\ log_data.kind = "ok"
    /\ log_data.rec.cmcd_data =
         << << <<"r", "e", "q", "u", "e", "s", "t">>,
               << << <<"c", "i", "d">>, <<"a", "b", "c", "1", "2", "3">> >> >> >> >>

\* C14 (as claimed): every point of a record has Time = str(the record's capture
\* time in ms), TimeUnit MILLISECONDS, MeasureValueType BIGINT, and a MeasureValue
\* made of decimal digits only.
C14_PointShape ==
    dpc = "built" =>
        \A p \in 1..Len(points) :
            /\ points[p].Time = strPyInt(log_data.rec.timestamp)
            /\ points[p].TimeUnit = "MILLISECONDS"
            /\ points[p].MeasureValueType = "BIGINT"
            /\ AllAsciiDigits(points[p].MeasureValue)

\* The item is a segment written without `=`.
IsFlag(id) == id \in AllSegIds /\ ~ItemOf(id).eq

\* The block without its segments that have no `=`.
WithoutFlags(b) == SelectSeq(b, LAMBDA id : ~IsFlag(id))

\* C16: a comma-delimited segment with no `=` is dropped: its key is not in the
\* attribute mapping, and the mapping is the one the same block gives with those
\* segments taken out.
C16_SegmentWithoutEqualsIsDropped ==
    (dpc # "start" /\ log_data.kind = "ok") =>
        /\ \A j \in LineStarts(input.block) :
               (IsCmcdName(input.block[j]) /\ IsLastOfName(input.block, j)) =>
                   LET segs == SegsOfLine(input.block, j)
                       data == log_data.rec.cmcd_data
                       cat  == CategoryOf(input.block[j])
                   IN  /\ DictHas(data, cat)
                       /\ \A k \in 1..Len(segs) :
                              (IsFlag(segs[k]) /\ ItemOf(segs[k]).k \notin KeysOfSegs(segs)) =>
                                  ~DictHas(DictGet(data, cat), ItemOf(segs[k]).k)
        /\ log_data.rec.cmcd_data
             = extract_cmcd_headers(RenderBlock(WithoutFlags(input.block)))

\* `CMCD-Request: br=4200,su,cid="abc123"` gave request {br: 4200, cid: abc123}.
C16_Witness ==
    /\ dpc = "parsed"
    /\ input.block = <<"Request", "br", "su", "cid">>
    /\ log_data.kind = "ok"
    /\ log_data.rec.cmcd_data =
         << << <<"r", "e", "q", "u", "e", "s", "t">>,
               << << <<"b", "r">>, <<"4", "2", "0", "0">> >>,
                  << <<"c", "i", "d">>, <<"a", "b", "c", "1", "2", "3">> >> >> >> >>

\* The value of a segment as it is written in the line, without the padding: in
\* its double quotes when it is quoted.
WrittenValue(g) == IF g.quoted THEN <<"\"">> \o g.v \o <<"\"">> ELSE g.v

\* The text without one leading and one trailing double quote, where present.
StripOneQuote(s) ==
    LET a == IF Len(s) > 0 /\ s[1] = "\"" THEN 2 ELSE 1
        b == IF Len(s) >= a /\ s[Len(s)] = "\"" THEN Len(s) - 1 ELSE Len(s)
    IN  SubSeq(s, a, b)

\* C17 (as claimed): the value parse_cmcd_value stores for a k=v segment is the
\* written value less at most one leading and one trailing double quote; further
\* double quotes are kept.
C17_OneQuoteEachSideIsRemoved ==
    (dpc # "start" /\ log_data.kind = "ok") =>
        \A j \in LineStarts(input.block) :
            (IsCmcdName(input.block[j]) /\ IsLastOfName(input.block, j)) =>
                LET segs  == SegsOfLine(input.block, j)
                    attrs == DictGet(log_data.rec.cmcd_data, CategoryOf(input.block[j]))
                IN  \A k \in 1..Len(segs) :
                        ( /\ ItemOf(segs[k]).eq
                          /\ \A n \in 1..Len(segs) :
                                 (n # k /\ ItemOf(segs[n]).eq) =>
                                     ItemOf(segs[n]).k # ItemOf(segs[k]).k ) =>
                            /\ DictHas(attrs, ItemOf(segs[k]).k)
                            /\ DictGet(attrs, ItemOf(segs[k]).k)
                                 = StripOneQuote(WrittenValue(ItemOf(segs[k])))

\* The header name of the line that the item at position j belongs to.
NameAt(b, j) ==
    LET before == {l \in LineStarts(b) : l <= j}
    IN  b[CHOOSE l \in before : \A m \in before : m <= l]

RECURSIVE OnlyCmcdLinesFrom(_, _)
\* The block without the lines whose header name does not contain CMCD-.
OnlyCmcdLinesFrom(b, j) ==
    IF j > Len(b) THEN <<>>
    ELSE (IF IsCmcdName(NameAt(b, j)) THEN <<b[j]>> ELSE <<>>) \o OnlyCmcdLinesFrom(b, j + 1)

\* C18: every category comes from a header line that contains `CMCD-` in that case;
\* the other lines, a lower-case cmcd- name included, give none and leave the
\* mapping of the CMCD lines as it is without them; and a CMCD line is split at
\* its first colon only, so a colon in the value stays in the value.
C18_OnlyCmcdLinesAreRead ==
    (dpc # "start" /\ log_data.kind = "ok") =>
        LET b    == input.block
            data == log_data.rec.cmcd_data
        IN  /\ \A c \in 1..Len(data) :
                   \E j \in LineStarts(b) :
                       IsCmcdName(b[j]) /\ data[c][1] = CategoryOf(b[j])
            /\ \A j \in LineStarts(b) :
                   ~IsCmcdName(b[j]) =>
                       /\ ~DictHas(data, lower(ItemOf(b[j]).name))
                       /\ (\A l \in LineStarts(b) : ~IsCmcdName(b[l])) => data = <<>>
            /\ data = extract_cmcd_headers(RenderBlock(OnlyCmcdLinesFrom(b, 1)))
            /\ \A j \in LineStarts(b) :
                   (IsCmcdName(b[j]) /\ IsLastOfName(b, j)) =>
                       LET segs == SegsOfLine(b, j)
                       IN  \A k \in 1..Len(segs) :
                               ( /\ ItemOf(segs[k]).eq
                                 /\ Contains(ItemOf(segs[k]).v, <<":">>)
                                 /\ Cardinality({n \in 1..Len(segs) :
                                        ItemOf(segs[n]).eq
                                          /\ ItemOf(segs[n]).k = ItemOf(segs[k]).k}) = 1 ) =>
                                   /\ DictHas(data, CategoryOf(b[j]))
                                   /\ DictHas(DictGet(data, CategoryOf(b[j])), ItemOf(segs[k]).k)
                                   /\ DictGet(DictGet(data, CategoryOf(b[j])), ItemOf(segs[k]).k)
                                        = ItemOf(segs[k]).v

\* `CMCD-Request: nor=a:b` then `cmcd-request: br=4200` gave request {nor: a:b} and
\* nothing else.
C18_Witness ==
    /\ dpc = "parsed"
    /\ input.block = <<"Request", "nor", "lower", "br">>
    /\ log_data.kind = "ok"
    /\ log_data.rec.cmcd_data =
         << << <<"r", "e", "q", "u", "e", "s", "t">>,
               << << <<"n", "o", "r">>, <<"a", ":", "b">> >> >> >> >>

RECURSIVE CategoryLinesFrom(_, _)
\* The positions of the CMCD header lines at which a header name appears for the
\* first time in the block, from position j on, in order.
CategoryLinesFrom(b, j) ==
    IF j > Len(b) THEN <<>>
    ELSE (IF /\ j \in LineStarts(b)
             /\ IsCmcdName(b[j])
             /\ \A l \in LineStarts(b) : l < j => b[l] # b[j]
          THEN <<j>> ELSE <<>>) \o CategoryLinesFrom(b, j + 1)

\* The position of the last line with the header name of position j.
LastOfName(b, j) == CHOOSE l \in LineStarts(b) : b[l] = b[j] /\ IsLastOfName(b, l)

RECURSIVE FirstKeys(_, _)
\* The distinct keys of the k=v segments in order of first appearance.
FirstKeys(segs, seen) ==
    IF segs = <<>> THEN <<>>
    ELSE LET g == ItemOf(Head(segs))
         IN  IF g.eq /\ g.k \notin seen
             THEN <<g.k>> \o FirstKeys(Tail(segs), seen \cup {g.k})
             ELSE FirstKeys(Tail(segs), seen)

RECURSIVE OrderClaimed(_, _)
\* The (category, measure name) pairs in the order claimed: categories by first
\* appearance (lines), within a category the keys of its mapping by first appearance
\* in the line that defines it, a pair being there when the mapping's value for
\* the key passes the digit test of the code.
OrderClaimed(b, lines) ==
    IF lines = <<>> THEN <<>>
    ELSE LET cat   == CategoryOf(b[Head(lines)])
             keys  == FirstKeys(SegsOfLine(b, LastOfName(b, Head(lines))), {})
             attrs == DictGet(log_data.rec.cmcd_data, cat)
             kept  == SelectSeq(keys, LAMBDA k : isdigit(DictGet(attrs, k)))
         IN  [n \in 1..Len(kept) |-> <<cat, <<"c", "m", "c", "d", "_">> \o kept[n]>>]
               \o OrderClaimed(b, Tail(lines))

\* C19: the time_taken point is first; the CMCD points follow by category in order
\* of the category's first appearance in the block and, within a category, in the
\* order its attributes were inserted; and the points are a function of the line
\* (decoding the same line again gives the same sequence).
C19_PointOrder ==
    dpc = "built" =>
        /\ points[1].MeasureName = TIME_TAKEN
        /\ Len(points[1].Dimensions) = 3
        /\ [p \in 1..(Len(points) - 1) |->
               <<points[p + 1].Dimensions[4].Value, points[p + 1].MeasureName>>]
             = OrderClaimed(input.block, CategoryLinesFrom(input.block, 1))
        /\ points = create_timestream_records(parse_cloudfront_log(input.line).rec)

\* request, object, request again: the point of request is before that of object;
\* within request, rtp written before br comes first.
C19_Witness ==
    /\ dpc = "built"
    /\ input.block = <<"Request", "br", "Object", "br", "Request", "rtp", "br">>
    /\ Len(points) = 4
    /\ points[2].Dimensions[4].Value = <<"r", "e", "q", "u", "e", "s", "t">>
    /\ points[2].MeasureName = <<"c", "m", "c", "d", "_", "r", "t", "p">>
    /\ points[3].MeasureName = <<"c", "m", "c", "d", "_", "b", "r">>
    /\ points[4].Dimensions[4].Value = <<"o", "b", "j", "e", "c", "t">>

\* C20: create_timestream_records leaves the record it was given as it is; every
\* point of its list keeps, from its append to the return, the Dimensions it was
\* appended with: the three base dimensions for the time_taken point, those and
\* cmcd_type for a CMCD point; and what it returns is a function of the record.
C20_BuildIsPure ==
    bpc \in {"time_taken", "loop", "returned"} =>
        LET rec  == log_data.rec
            seen == DerefAll(building, dimensions)
        IN  /\ log_data = parse_cloudfront_log(input.line)
            /\ \A p \in 1..Len(seen) :
                   seen[p].Dimensions =
                       IF p = 1
                       THEN << [Name |-> "client_ip", Value |-> rec.client_ip],
                               [Name |-> "edge_location", Value |-> rec.edge_location],
                               [Name |-> "status", Value |-> rec.status] >>
                       ELSE ClaimedDimensions(rec, seen[p].Dimensions[4].Value)
            /\ bpc = "returned" => points = seen /\ points = create_timestream_records(rec)

\* Two CMCD points were appended after the time_taken point, which still has its
\* three dimensions in the list returned.
C20_Witness ==
    /\ bpc = "returned"
    /\ input.block = <<"Request", "br", "Object", "br">>
    /\ Len(points) = 3
    /\ Len(points[1].Dimensions) = 3
    /\ Len(points[2].Dimensions) = 4
    /\ Len(points[3].Dimensions) = 4

\* The URL as the claim wants it: a str that begins with https:// (in any case)
\* and whose authority has its square brackets in pairs.
ClaimedHttpsUrl(url) ==
    /\ url.type = "str"
    /\ Len(url.text) >= 8
    /\ lower(SubSeq(url.text, 1, 8)) = <<"h", "t", "t", "p", "s", ":", "/", "/">>
    /\ LET rest   == SubSeq(url.text, 9, Len(url.text))
           ends   == {k \in 1..Len(rest) : rest[k] \in {"/", "?", "#"}}
           stop   == IF ends = {} THEN Len(rest) + 1
                     ELSE CHOOSE k \in ends : \A l \in ends : k <= l
           netloc == SubSeq(rest, 1, stop - 1)
       IN  (\E k \in 1..Len(netloc) : netloc[k] = "[")
             <=> (\E k \in 1..Len(netloc) : netloc[k] = "]")

\* C15 (as claimed): get_influxdb_client raises ValueError when the URL is not an
\* HTTPS URL or is malformed, and when the token is empty or missing; it returns
\* a client only for an HTTPS URL with a non-empty token.
C15_ClientOnlyForHttpsAndToken ==
    cpc = "done" =>
        /\ ~ClaimedHttpsUrl(call.url) =>
               outcome.kind = "raise" /\ outcome.exc = "ValueError"
        /\ (call.token.type = "None" \/ call.token.text = <<>>) =>
               outcome.kind = "raise" /\ outcome.exc = "ValueError"
        /\ outcome.kind = "client" =>
               /\ ClaimedHttpsUrl(call.url)
               /\ call.token.type = "str"
               /\ call.token.text # <<>>

\* The capture-time field as float() reads it: its sign, its whole part and its
\* decimals.
CaptureTime(line) ==
    LET t     == strip(FieldsOf(line)[1])
        u     == Unsigned(t)
        parts == split1(u, <<".">>)
    IN  [decimal |-> IsPlainDecimal(u),
         neg     |-> Len(t) > 0 /\ t[1] = "-",
         whole   |-> parts[1],
         frac    |-> IF Len(parts) = 2 THEN parts[2] ELSE <<>>]

\* The decimal value times 1000, truncated: the digits of the whole part and the
\* first three decimals, padded with zeros.
DecimalMillis(ct) ==
    NatOfDigits(ct.whole \o [k \in 1..3 |-> IF k <= Len(ct.frac) THEN ct.frac[k] ELSE "0"],
                Len(ct.whole) + 3)

\* A record was decoded from a line whose capture time is a plain decimal.
DecimalTimeDecoded ==
    /\ dpc # "start"
    /\ log_data.kind = "ok"
    /\ CaptureTime(input.line).decimal

ResponseAt(n) ==
    LET at == {k \in 1..Len(messages) : messages[k].role = "assistant"}
    IN  CHOOSE k \in at : Cardinality({j \in at : j <= k}) = n

Responded == Cardinality({k \in 1..Len(messages) : messages[k].role = "assistant"})

\* The toolUseIds of the toolUse blocks of a response, in order.
ToolUseIdsOf(content) ==
    LET uses == SelectSeq(content, LAMBDA b : \E k \in 1..Len(b) : b[k][1] = "toolUse")
    IN  [j \in 1..Len(uses) |-> (CHOOSE p \in {uses[j][k] : k \in 1..Len(uses[j])} :
                                    p[1] = "toolUse")[2].toolUseId]

\* Message k is a toolResult message for the given toolUseId.
IsToolResultFor(k, id) ==
    /\ messages[k].role = "user"
    /\ Len(messages[k].content) = 1
    /\ messages[k].content[1][1][1] = "toolResult"
    /\ messages[k].content[1][1][2].toolUseId = id

\* process_query is between two model calls, or has returned.
BetweenModelCalls == qpc \in {"converse", "returned"} /\ Responded > 0

\* C22: when process_query is about to call the model again or has returned, each
\* response is followed in the conversation by one toolResult message per toolUse
\* block, in order and with the block's toolUseId, and by nothing else before the
\* next response; the tool calls made are those of the toolUse blocks, one each;
\* every model call after the first follows a response with a toolUse, and
\* process_query returns after the first response without one.
C22_OneToolResultPerToolUse ==
    BetweenModelCalls =>
        /\ \A n \in 1..Responded :
               LET a   == ResponseAt(n)
                   b   == IF n < Responded THEN ResponseAt(n + 1) ELSE Len(messages) + 1
                   ids == ToolUseIdsOf(messages[a].content)
               IN  /\ b - a - 1 = Len(ids)
                   /\ \A j \in 1..Len(ids) : IsToolResultFor(a + j, ids[j])
                   /\ a = requests[n] + 1
                   /\ n < Responded => ids # <<>>
        /\ Len(requests) = Responded
        /\ LET made == [j \in 1..Len(toolCalls) |-> toolCalls[j].toolUseId]
               used == [n \in 1..Responded |-> ToolUseIdsOf(messages[ResponseAt(n)].content)]
           IN  /\ Len(made) = Cardinality({made[j] : j \in 1..Len(made)})
               /\ {made[j] : j \in 1..Len(made)}
                    = UNION {{used[n][j] : j \in 1..Len(used[n])} : n \in 1..Responded}
        /\ LET last == ToolUseIdsOf(messages[ResponseAt(Responded)].content)
           IN  (qpc = "returned") <=> (last = <<>>)

\* process_query returned after two model calls: the first response held a text
\* and two toolUse blocks, and both tools were called.
C22_Witness ==
    /\ qpc = "returned"
    /\ Responded = 2
    /\ Len(ToolUseIdsOf(messages[ResponseAt(1)].content)) = 2
    /\ Len(messages[ResponseAt(1)].content) = 3
    /\ Len(toolCalls) = 2
    /\ Len(messages) = 5

\* C23 (as claimed): a tool call whose result has isError true is reported to the
\* model as a toolResult with status "error", and status "success" is reported
\* only for results without the flag.
C23_ErrorResultIsReportedAsError ==
    \A j \in 1..Len(toolCalls) :
        toolCalls[j].result.kind = "result" =>
            \E k \in 1..Len(messages) :
                /\ IsToolResultFor(k, toolCalls[j].toolUseId)
                /\ messages[k].content[1][1][2].status
                     = IF toolCalls[j].result.isError THEN "error" ELSE "success"

\* C24 (as claimed): when get_cmcd_data or influxdb_query has returned, the client
\* it created, if any, is closed, and the value returned is a success result or,
\* after a failure, {'status': 'error', 'message': ...}.
C24_ClientClosedOnEveryPath ==
    spc = "returned" =>
        /\ client.kind = "client" => client.closed
        /\ ret.status \in {"success", "error"}
        /\ error # "" => ret = [status |-> "error", message |-> error]

\* C25 (as claimed): the client built inside get_cmcd_data and influxdb_query has
\* verify_ssl equal to the verify_ssl argument of the call and the default
\* timeout of get_influxdb_client, 10000 ms.
C25_ClientUsesVerifySslArgument ==
    client.kind = "client" =>
        /\ client.verify_ssl = tool_call.verify_ssl
        /\ client.timeout.type = "int"
        /\ client.timeout.value = DEFAULT_TIMEOUT

\* The URL with its http:// or https:// replaced by the given prefix.
WithPrefix(url, prefix) ==
    LET text == url.text
        rest == IF Len(text) >= 8 /\ SubSeq(text, 1, 8) = HTTPS_PREFIX
                THEN SubSeq(text, 9, Len(text))
                ELSE IF Len(text) >= 7 /\ SubSeq(text, 1, 7) = HTTP_PREFIX
                THEN SubSeq(text, 8, Len(text))
                ELSE text
    IN  Str(prefix \o rest)

\* The configurations in the order claimed: the current one, HTTPS with
\* verify_ssl False, HTTP with verify_ssl False.
ClaimedConfiguration(k) ==
    IF k = 1 THEN [url |-> env.url, verify_ssl |-> env.verify_ssl]
    ELSE IF k = 2 THEN [url |-> WithPrefix(env.url, HTTPS_PREFIX), verify_ssl |-> FALSE]
    ELSE [url |-> WithPrefix(env.url, HTTP_PREFIX), verify_ssl |-> FALSE]

\* C26 (as claimed): main makes no connection attempt and returns 1 when the port
\* is closed; otherwise it has tried the configurations in the order current,
\* HTTPS with verify_ssl False, HTTP with verify_ssl False, up to the first that
\* succeeded, returns 0 when one succeeded and 1 when all three failed.
C26_TriesConfigurationsInOrder ==
    kpc \in {"returned", "raised"} =>
        IF ~env.port_open
        THEN attempts = <<>> /\ exit_code = [kind |-> "return", value |-> 1]
        ELSE /\ exit_code.kind = "return"
             /\ Len(attempts) \in 1..3
             /\ \A k \in 1..Len(attempts) :
                    /\ attempts[k].url = ClaimedConfiguration(k).url
                    /\ attempts[k].verify_ssl = ClaimedConfiguration(k).verify_ssl
                    /\ k < Len(attempts) => ~attempts[k].ok
             /\ attempts[Len(attempts)].ok => exit_code.value = 0
             /\ exit_code.value = 1
                  <=> (Len(attempts) = 3 /\ \A k \in 1..3 : ~attempts[k].ok)
             /\ exit_code.value \in {0, 1}

====
